---- MODULE Spec2Model ----
(***************************************************************************)
(* Verification model of the ingestion-consensus and retrieval engine of   *)
(* the financial RAG repository:                                           *)
(*   scripts/faiss_vector_store.py      FAISSVectorStore                   *)
(*   scripts/hybrid_pdf_extractor.py    HybridPDFExtractor                 *)
(*   scripts/groq_optimized_simple_rag.py  GroqOptimizedSimpleRAG          *)
(*   scripts/chart_analyzer.py          ChartAnalyzer                      *)
(*   scripts/integrated_analyzer.py     IntegratedAnalyzer                 *)
(*   scripts/memory_optimized_groq_rag.py  MemoryOptimizedGroqRAG          *)
(*                                                                         *)
(* Strings are sequences of characters (one-character TLA+ strings; a few  *)
(* fixed literals of the code are kept as one token).  The specifications  *)
(* of the module share its variables: SpecStore (the vector store, which   *)
(* one thread searches while another adds to it), SpecPersist (the store   *)
(* and its directory across processes), SpecConsensus (consensus text      *)
(* extraction), SpecConfidence (the composite confidence score), SpecQuery *)
(* (query() of the RAG engine), SpecChunk (_chunk_text as a function) and  *)
(* SpecChunkLoop (its loop, iteration by iteration), SpecChart (chart      *)
(* detection and data extraction), SpecTitle (page titles), SpecBatch      *)
(* (analyze_batch and its worker threads), SpecImage (analyze_pdf_complete *)
(* on one document: the threads of parallel extraction, the final output,  *)
(* the chart analysis of the page images by a batch, the integrated        *)
(* artifact and its insertion into the store), SpecImageFair (the          *)
(* extraction alone, its calling thread fairly scheduled), SpecMulti       *)
(* (analyze_multiple_pdfs: several documents analysed at once by one       *)
(* analyzer, which share the image directory and the counters) and         *)
(* SpecSplit (_split_text).                                                *)
(***************************************************************************)
EXTENDS Integers, Sequences, FiniteSets, TLC

VARIABLES
    \* ---- FAISSVectorStore (self.*) ----
    model_name,        \* self.model_name
    index,             \* self.index: the vectors of the FAISS index, in insertion order
    chunks,            \* self.chunks: list of DocumentChunk
    chunk_metadata,    \* self.chunk_metadata: dict chunk id -> metadata
    \* ---- the vector_store_path directory ----
    disk,              \* config.json, faiss_index.bin, chunks.pkl, metadata.json
    \* ---- the thread running _add_chunks ----
    pc,                \* "idle" | "storing" (inside the loop of lines 271-277)
    batch,             \* the chunks argument of the running _add_chunks
    stored,            \* how many chunks of the batch the loop has stored
    base,              \* len(self.chunks) when the running _add_chunks began
    \* ---- what the last call returned, while the state is as that call left it ----
    out,
    search_call,       \* the running search: its arguments, the hits index.search
                       \* returned, and the loop's rank and results so far
    caller,            \* position of the process that opened the store
    saved,             \* the store as it was at the last save_vector_store, while
                       \* the directory still holds exactly what that call wrote
    \* ---- consensus_text_extraction ----
    texts_pdfplumber, texts_alternative, consensus_texts, cpc,
    \* ---- _calculate_confidence ----
    conf_results, response_length, confidence, fpc,
    \* ---- GroqOptimizedSimpleRAG.query ----
    rag_chunks,        \* self.chunks of the engine
    faiss_index,       \* self.faiss_index: the normalized embeddings, or None
    question, max_context_length,
    search_results,    \* what _search_similar_chunks returned
    context,           \* the context string embedded in the prompt
    completion_calls,  \* calls of groq_client.chat.completions.create made by the query
    response,          \* the dict query() returned
    qpc,               \* "start" | "prompted" (before the completion call) | "returned"
    query_stats,       \* self.query_stats (total_time is not modelled)
    queries_made,      \* calls of query() so far, the running one included
    \* ---- _chunk_text ----
    ck_text, ck_size, ck_overlap, ck_chunks, kpc,
    ck_start,          \* start of the running loop of _chunk_text
    ck_iterations,     \* iterations of that loop so far
    \* ---- ChartAnalyzer.analyze_image ----
    image,             \* what the detectors and the OCR find in the image
    chart_scores,      \* the four detector scores of _detect_chart_type
    chart_type,        \* the type _detect_chart_type returned
    chart_data,        \* what analyze_image returned
    apc,
    \* ---- extract_titles_from_text ----
    text_data, titles, tpc,
    \* ---- parallel_extraction / build_final_output ----
    \* (one entry for every call of analyze_pdf_complete under way)
    pdf_paths,         \* the path given to each call
    pdf,               \* the document: its page texts and which renderers work on it
    extraction_futures,\* the futures dict of parallel_extraction: task -> state
    pages_saved,       \* pages whose image the running renderer has saved
    extraction_results, render_log, final_pages, ipc,
    artifact,          \* what IntegratedAnalyzer.analyze_pdf_complete returned
    \* ---- IntegratedAnalyzer.analyze_multiple_pdfs ----
    multi_results,     \* results: path -> what analyze_pdf_complete returned
    multi_collected,   \* how many futures the collecting loop has been through
    mpc,               \* "off" | "input" | "collecting" | "returned"
    \* ---- ChartAnalyzer.analyze_batch (one entry for every call under way) ----
    image_files,       \* the image files on disk: path -> what the file holds
    image_paths,       \* the argument of analyze_batch
    futures,           \* the tasks submitted to the pool, in submission order
    performance_stats, \* self.performance_stats of the one ChartAnalyzer
    batch_results,     \* results of analyze_batch
    collected,         \* how many futures the collecting loop has been through
    bpc,               \* "input" | "collecting" | "returned"
    \* ---- MemoryOptimizedGroqRAG._split_text ----
    sp_text, sp_max_size, sp_chunks, spc

storeVars == <<model_name, index, chunks, chunk_metadata, disk, pc, batch, stored, base,
              out, search_call, caller, saved>>
consVars  == <<texts_pdfplumber, texts_alternative, consensus_texts, cpc>>
confVars  == <<conf_results, response_length, confidence, fpc>>
queryVars == <<rag_chunks, faiss_index, question, max_context_length, search_results, context,
              completion_calls, response, qpc, query_stats, queries_made>>
chunkVars == <<ck_text, ck_size, ck_overlap, ck_chunks, kpc, ck_start, ck_iterations>>
chartVars == <<image, chart_scores, chart_type, chart_data, apc>>
titleVars == <<text_data, titles, tpc>>
multiVars == <<multi_results, multi_collected, mpc>>
imageVars == <<pdf_paths, pdf, extraction_futures, pages_saved, extraction_results, render_log,
              final_pages, ipc, artifact, multiVars>>
batchVars == <<image_files, image_paths, futures, performance_stats, batch_results, collected,
              bpc>>
\* the variables of analyze_batch other than the files and the counters
callVars  == <<image_paths, futures, batch_results, collected, bpc>>
splitVars == <<sp_text, sp_max_size, sp_chunks, spc>>
lateVars  == <<batchVars, splitVars>>
moreVars  == <<queryVars, chunkVars, chartVars, titleVars, imageVars, lateVars>>
oldVars   == <<storeVars, consVars, confVars, queryVars, chunkVars, chartVars, titleVars,
              imageVars>>
\* the variables of everything but the analysis of documents and images
restVars  == <<storeVars, consVars, confVars, queryVars, chunkVars, chartVars, titleVars,
              splitVars>>
vars      == <<storeVars, consVars, confVars, moreVars>>

\* ------------------------------------------------------------------ bounds
MaxChunks     == 3    \* vectors the index may hold
MaxParagraphs == 2    \* paragraphs of the page of an analysis
MaxK          == 3    \* largest k of a search
MaxPages      == 2    \* pages of a document given to the extraction strategies
MaxResults    == 3    \* search results given to _calculate_confidence

\* ------------------------------------------------------------ text helpers
Min(a, b) == IF a < b THEN a ELSE b
Max(a, b) == IF a > b THEN a ELSE b

Whitespace == {" ", "\n"}

\* text[start:end] of Python for 0 <= start, 0 <= end
Slice(text, start, end) == SubSeq(text, start + 1, Min(end, Len(text)))

RECURSIVE LStrip(_)
LStrip(s) == IF s # <<>> /\ Head(s) \in Whitespace THEN LStrip(Tail(s)) ELSE s

RECURSIVE RStrip(_)
RStrip(s) ==
    IF s # <<>> /\ s[Len(s)] \in Whitespace THEN RStrip(SubSeq(s, 1, Len(s) - 1)) ELSE s

\* str.strip()
Strip(s) == RStrip(LStrip(s))

\* text.rfind(c, start, end): the highest 0-based position in [start, end) holding c, or -1
RFind(text, c, start, end) ==
    LET hits == {i \in start .. (Min(end, Len(text)) - 1) : text[i + 1] = c}
    IN  IF hits = {} THEN -1 ELSE CHOOSE i \in hits : \A j \in hits : j <= i

\* str(n) for the page numbers of the model
Digits == <<"0", "1", "2", "3", "4", "5", "6", "7", "8", "9">>
Str(n) ==
    IF n \in 0 .. 9 THEN <<Digits[n + 1]>>
    ELSE <<Digits[(n \div 10) + 1], Digits[(n % 10) + 1]>>

RECURSIVE Join(_, _)
\* sep.join(parts)
Join(parts, sep) ==
    IF parts = <<>> THEN <<>>
    ELSE IF Len(parts) = 1 THEN parts[1]
    ELSE parts[1] \o sep \o Join(Tail(parts), sep)

RECURSIVE FlattenSeq(_)
FlattenSeq(ss) == IF ss = <<>> THEN <<>> ELSE Head(ss) \o FlattenSeq(Tail(ss))

\* Python's None where a string may stand
NoneStr == <<"None">>

\* Python's None where a page number may stand
NonePage == -1

\* a string that is not None and not empty
Truthy(string) == string # <<>> /\ string # NoneStr

\* ------------------------------------------------------------- _chunk_text
ChunkSize    == 500
ChunkOverlap == 50

RECURSIVE ChunkLoop(_, _, _, _, _)
ChunkLoop(text, chunk_size, overlap, start, acc) ==
    IF ~(start < Len(text)) THEN acc
    ELSE
        LET end0 == start + chunk_size
            dot  == RFind(text, ".", start, end0)
            exc  == IF dot = -1 THEN RFind(text, "!", start, end0) ELSE dot
            sentence_end == IF exc = -1 THEN RFind(text, "?", start, end0) ELSE exc
            end  == IF end0 < Len(text) /\ sentence_end # -1
                       /\ sentence_end > start + (chunk_size \div 2)
                    THEN sentence_end + 1 ELSE end0
            chunk == Strip(Slice(text, start, end))
        IN  ChunkLoop(text, chunk_size, overlap, end - overlap,
                      IF chunk # <<>> THEN Append(acc, chunk) ELSE acc)

ChunkText(text, chunk_size, overlap) ==
    IF Len(text) <= chunk_size THEN <<text>>
    ELSE ChunkLoop(text, chunk_size, overlap, 0, <<>>)

\* ------------------------------------------------------ _generate_chunk_id
IdPrefixLen == 100

\* hashlib.md5 of f"{source}_{page_number}_{text[:100]}"; the digest is modelled by
\* the hashed content itself (md5 collisions are out of the model)
GenerateChunkId(text, source, page_number) ==
    <<source, "_">>
        \o (IF page_number = NonePage THEN <<"N", "o", "n", "e">> ELSE Str(page_number))
        \o <<"_">> \o Slice(text, 0, IdPrefixLen)

\* -------------------------------------------------- the embedding model
\* SentenceTransformer.encode(..., normalize_embeddings=True) is an external,
\* deterministic function of the text.  Its vectors all have the same norm (5 here,
\* so that the inner product is 25 * cosine and stays an integer).
Alphabet == <<"a", "b", "c", ".", "!", "?", " ", "\n", "_", "{", "}", ":", ",",
              "0", "1", "2", "3", "4", "5", "6", "7", "8", "9">>

Code(c) ==
    IF \E i \in 1 .. Len(Alphabet) : Alphabet[i] = c
    THEN CHOOSE i \in 1 .. Len(Alphabet) : Alphabet[i] = c
    ELSE Len(Alphabet) + 1

RECURSIVE CodeSum(_)
CodeSum(text) == IF text = <<>> THEN 0 ELSE Code(Head(text)) + CodeSum(Tail(text))

Directions == << <<5, 0>>, <<4, 3>>, <<3, 4>>, <<0, 5>>, <<-3, 4>>, <<-4, 3>>, <<-5, 0>> >>

Encode(text) == Directions[(CodeSum(text) % Len(Directions)) + 1]

InnerProduct(u, v) == u[1] * v[1] + u[2] * v[2]

\* ------------------------------------------------------- add_pdf_content
\* json.dumps(table, ensure_ascii=False) of a table record of the analysis
JsonDumpsTable(table) ==
    <<"{", "sayfa", ":">> \o Str(table.sayfa) \o <<",", "tablo_id", ":">>
        \o Str(table.tablo_id) \o <<",", "data", ":">> \o table.data \o <<"}">>

ParagraphChunks(filename, page) ==
    LET page_num == page.sayfa
        OfParagraph(paragraph) ==
            IF Strip(paragraph) # <<>>
            THEN LET text_chunks == ChunkText(paragraph, ChunkSize, ChunkOverlap)
                 IN  [i \in 1 .. Len(text_chunks) |->
                        [id          |-> GenerateChunkId(text_chunks[i], filename, page_num),
                         text        |-> text_chunks[i],
                         source      |-> filename,
                         page_number |-> page_num,
                         chunk_type  |-> "text",
                         metadata    |-> [paragraph |-> TRUE]]]
            ELSE <<>>
    IN  FlattenSeq([j \in 1 .. Len(page.paragraflar) |-> OfParagraph(page.paragraflar[j])])

TableChunk(filename, table) ==
    LET table_text == JsonDumpsTable(table)
    IN  [id          |-> GenerateChunkId(table_text, filename, table.sayfa),
         text        |-> table_text,
         source      |-> filename,
         page_number |-> table.sayfa,
         chunk_type  |-> "table",
         metadata    |-> [table |-> TRUE, table_data |-> table]]

\* the parts of one chart, in the order of lines 213-229
\* (the Turkish title label of line 215 is written in ASCII; each label is one token)
ChartTextParts(chart) ==
    (IF Truthy(chart.title) THEN << <<"Baslik: ">> \o chart.title >> ELSE <<>>)
    \o (IF Truthy(chart.x_axis_label) THEN << <<"X Ekseni: ">> \o chart.x_axis_label >> ELSE <<>>)
    \o (IF Truthy(chart.y_axis_label) THEN << <<"Y Ekseni: ">> \o chart.y_axis_label >> ELSE <<>>)
    \o FlattenSeq([i \in 1 .. Len(chart.data_points) |->
            \* point.get('label'): a bar or a line point has no label
            IF "label" \in DOMAIN chart.data_points[i] /\ Truthy(chart.data_points[i].label)
            THEN << <<"Veri: ">> \o chart.data_points[i].label >> ELSE <<>>])
    \o FlattenSeq([i \in 1 .. Len(chart.extracted_text) |->
            IF Strip(chart.extracted_text[i]) # <<>>
            THEN << <<"OCR: ">> \o chart.extracted_text[i] >> ELSE <<>>])

ChartChunks(filename, chart) ==
    LET chart_text_parts == ChartTextParts(chart)
        chart_text == Join(chart_text_parts, <<" ", "|", " ">>)
    IN  IF chart_text_parts # <<>>
        THEN << [id          |-> GenerateChunkId(chart_text, filename, chart.source_page),
                 text        |-> chart_text,
                 source      |-> filename,
                 page_number |-> chart.source_page,
                 chunk_type  |-> "chart",
                 metadata    |-> [chart |-> TRUE, chart_type |-> chart.chart_type,
                                  chart_data |-> chart]] >>
        ELSE <<>>

\* chunks_to_add of add_pdf_content: paragraphs, then tables, then charts; the
\* tables are read only when pdf_content has a 'tables' key (line 190)
ChunksToAdd(pdf_analysis) ==
    LET filename == pdf_analysis.document_info.filename
        pages    == pdf_analysis.pdf_content.pages
        tables   == IF "tables" \in DOMAIN pdf_analysis.pdf_content
                    THEN pdf_analysis.pdf_content.tables ELSE <<>>
        charts   == pdf_analysis.chart_analysis.charts
    IN  FlattenSeq([i \in 1 .. Len(pages) |-> ParagraphChunks(filename, pages[i])])
        \o [i \in 1 .. Len(tables) |-> TableChunk(filename, tables[i])]
        \o FlattenSeq([i \in 1 .. Len(charts) |-> ChartChunks(filename, charts[i])])

\* asdict(chunk) without the embedding
MetadataOf(chunk) == chunk

\* self.chunk_metadata[chunk.id] = metadata
PutMetadata(meta, chunk) ==
    [id \in DOMAIN meta \cup {chunk.id} |-> IF id = chunk.id THEN MetadataOf(chunk) ELSE meta[id]]

\* ------------------------------------------------------------------ search
\* the score faiss reports for a neighbour it does not have (-FLT_MAX, label -1)
FaissMissingScore == -1000

\* faiss.IndexFlatIP.search for one query vector: k (score, label) pairs by
\* descending inner product (equal scores: lower label first), padded with label -1
RECURSIVE IndexSearchFrom(_, _, _, _)
IndexSearchFrom(vectors, query_embedding, k, taken) ==
    IF k <= 0 THEN <<>>
    ELSE
        LET rest == (0 .. Len(vectors) - 1) \ taken
            Ip(i) == InnerProduct(vectors[i + 1], query_embedding)
        IN  IF rest = {}
            THEN <<[score |-> FaissMissingScore, idx |-> -1]>>
                     \o IndexSearchFrom(vectors, query_embedding, k - 1, taken)
            ELSE LET best == CHOOSE i \in rest :
                                 \A j \in rest : Ip(i) > Ip(j) \/ (Ip(i) = Ip(j) /\ i <= j)
                 IN  <<[score |-> Ip(best), idx |-> best]>>
                         \o IndexSearchFrom(vectors, query_embedding, k - 1, taken \cup {best})

IndexSearch(vectors, query_embedding, k) == IndexSearchFrom(vectors, query_embedding, k, {})

NoFilter == ""

\* one iteration of the loop of lines 311-326 on the hit of that rank, with the
\* chunk list as it is when the iteration runs
SearchIteration(hit, rank, chunk_list, filter_type, results) ==
    LET idx == hit.idx
    IN  IF idx >= Len(chunk_list)
        THEN [raised |-> "none", results |-> results]
        ELSE IF idx < 0 - Len(chunk_list)
        THEN [raised |-> "IndexError", results |-> <<>>]
        ELSE
            \* self.chunks[idx]: a negative idx counts from the end of the list
            LET chunk == chunk_list[IF idx >= 0 THEN idx + 1 ELSE Len(chunk_list) + idx + 1]
            IN  IF filter_type # NoFilter /\ chunk.chunk_type # filter_type
                THEN [raised |-> "none", results |-> results]
                ELSE [raised  |-> "none",
                      results |-> Append(results, [chunk |-> chunk,
                                                   score |-> hit.score,
                                                   rank  |-> rank])]

\* the loop of lines 311-326 on a chunk list that does not change while it runs;
\* rank is the position enumerate() gives the hit
RECURSIVE SearchLoop(_, _, _, _, _)
SearchLoop(hits, chunk_list, filter_type, rank, results) ==
    IF rank >= Len(hits) THEN [raised |-> "none", results |-> results, encode_calls |-> 1]
    ELSE
        LET r == SearchIteration(hits[rank + 1], rank, chunk_list, filter_type, results)
        IN  IF r.raised # "none"
            THEN [raised |-> r.raised, results |-> <<>>, encode_calls |-> 1]
            ELSE SearchLoop(hits, chunk_list, filter_type, rank + 1, r.results)

\* search up to its loop, embedding the query before it looks at the index
SearchEntryEncodesFirst(vectors, query, k) ==
    IF Len(vectors) = 0 THEN [returns |-> TRUE, encode_calls |-> 1, hits |-> <<>>]
    ELSE [returns |-> FALSE, encode_calls |-> 1, hits |-> IndexSearch(vectors, Encode(query), k)]

\* search up to its loop (lines 296-307): the return on an empty index, or the
\* hits of self.index.search; encode_calls: the calls of self.model.encode made
SearchEntry(vectors, query, k) ==
    IF Len(vectors) = 0 THEN [returns |-> TRUE, encode_calls |-> 0, hits |-> <<>>]
    ELSE [returns |-> FALSE, encode_calls |-> 1, hits |-> IndexSearch(vectors, Encode(query), k)]

\* FAISSVectorStore.search on a store that no other thread changes meanwhile
SearchStore(vectors, chunk_list, query, k, filter_type) ==
    LET entry == SearchEntry(vectors, query, k)
    IN  IF entry.returns
        THEN [raised |-> "none", results |-> <<>>, encode_calls |-> entry.encode_calls]
        ELSE [SearchLoop(entry.hits, chunk_list, filter_type, 0, <<>>)
                  EXCEPT !.encode_calls = entry.encode_calls]

\* ------------------------------------------------------------- persistence
EmptyMetadata == [id \in {} |-> id]

\* json.dump of the metadata dict: the JSON object as its set of members
JsonDumpMetadata(meta) == {<<id, meta[id]>> : id \in DOMAIN meta}

\* json.load of that object
JsonLoadMetadata(members) ==
    [id \in {m[1] : m \in members} |-> (CHOOSE m \in members : m[1] = id)[2]]

EmbeddingDim == 2

NoConfig == [model_name |-> "", index_type |-> "", embedding_dim |-> 0, total_chunks |-> 0]

EmptyDisk ==
    [config   |-> [exists |-> FALSE, content |-> NoConfig],
     index    |-> [exists |-> FALSE, content |-> <<>>],
     chunks   |-> [exists |-> FALSE, content |-> <<>>],
     metadata |-> [exists |-> FALSE, content |-> {}]]

Artifacts == {"config", "index", "chunks", "metadata"}

\* the four files save_vector_store writes
SaveVectorStore(name, vectors, chunk_list, meta) ==
    [index    |-> [exists |-> TRUE, content |-> vectors],
     chunks   |-> [exists |-> TRUE, content |-> chunk_list],
     metadata |-> [exists |-> TRUE, content |-> JsonDumpMetadata(meta)],
     config   |-> [exists |-> TRUE,
                   content |-> [model_name    |-> name,
                                index_type    |-> "flat",
                                embedding_dim |-> EmbeddingDim,
                                total_chunks  |-> Len(chunk_list)]]]

\* a load that forgets to read faiss_index.bin (the index stays as it was)
LoadVectorStoreKeepsIndex(name, vectors, chunk_list, meta, dsk) ==
    LET keep == [index |-> vectors, chunks |-> chunk_list, chunk_metadata |-> meta, ret |-> FALSE]
    IN  IF ~dsk.config.exists THEN keep
        ELSE IF dsk.config.content.model_name # name THEN keep
        ELSE IF ~dsk.index.exists THEN keep
        ELSE IF ~dsk.chunks.exists THEN keep
        ELSE [index          |-> vectors,
              chunks         |-> dsk.chunks.content,
              chunk_metadata |-> IF dsk.metadata.exists
                                 THEN JsonLoadMetadata(dsk.metadata.content)
                                 ELSE meta,
              ret            |-> TRUE]

\* load_vector_store: the store after the call and the value returned
LoadVectorStore(name, vectors, chunk_list, meta, dsk) ==
    LET keep == [index |-> vectors, chunks |-> chunk_list, chunk_metadata |-> meta, ret |-> FALSE]
    IN  IF ~dsk.config.exists THEN keep
        ELSE IF dsk.config.content.model_name # name THEN keep
        ELSE IF ~dsk.index.exists THEN keep
        ELSE IF ~dsk.chunks.exists
             THEN [keep EXCEPT !.index = dsk.index.content]
        ELSE [index          |-> dsk.index.content,
              chunks         |-> dsk.chunks.content,
              chunk_metadata |-> IF dsk.metadata.exists
                                 THEN JsonLoadMetadata(dsk.metadata.content)
                                 ELSE meta,
              ret            |-> TRUE]

\* ------------------------------------------------- inputs of the store
Models == {"mpnet", "minilm"}
Files  == {"a.pdf"}

ParagraphTexts == {<<"a">>, <<"b">>, <<" ">>}

RECURSIVE SeqsUpTo(_, _)
\* the sequences over S of length at most n
SeqsUpTo(S, n) ==
    IF n = 0 THEN {<<>>}
    ELSE LET shorter == SeqsUpTo(S, n - 1)
         IN  shorter \cup {Append(q, x) : q \in {r \in shorter : Len(r) = n - 1}, x \in S}

TableInputs == {[sayfa |-> 1, tablo_id |-> 1, data |-> <<"c">>]}

ChartInputs ==
    {[source_page |-> 2, chart_type |-> "bar_chart", title |-> t, x_axis_label |-> <<>>,
      y_axis_label |-> <<>>, data_points |-> <<>>, extracted_text |-> <<>>] :
        t \in {<<>>, <<"b", "c">>}}

AnalysesOver(paragraphs, tables, charts) ==
    {[document_info  |-> [filename |-> f],
      pdf_content    |-> [pages  |-> <<[sayfa |-> 1, paragraflar |-> ps]>>,
                          tables |-> ts],
      chart_analysis |-> [charts |-> cs]] :
        f  \in Files,
        ps \in SeqsUpTo(paragraphs, MaxParagraphs),
        ts \in SeqsUpTo(tables, 1),
        cs \in SeqsUpTo(charts, 1)}

\* the analysis artifacts given to add_pdf_content
Analyses == AnalysesOver(ParagraphTexts, TableInputs, ChartInputs)

\* the analysis artifacts a caller may find in analysis_output when it rebuilds
RebuildAnalyses == AnalysesOver({<<"a">>}, TableInputs, {})

\* chunks_to_add of every analysis of the model, computed once
ChunksToAddOf == [a \in Analyses |-> ChunksToAdd(a)]

Queries     == {<<"a">>, <<"b", "c">>}
FilterTypes == {NoFilter, "text", "table"}

NoOut   == [op |-> "none"]
\* no search is running
NoSearch == [active |-> FALSE, query |-> <<>>, k |-> 0, filter_type |-> NoFilter,
             hits |-> <<>>, rank |-> 0, results |-> <<>>, encode_calls |-> 0]
NoSaved == [valid |-> FALSE, model_name |-> "", index |-> <<>>, chunks |-> <<>>,
            chunk_metadata |-> EmptyMetadata]

\* the variables of the other components, at rest
ConsOff ==
    /\ texts_pdfplumber = <<>>
    /\ texts_alternative = <<>>
    /\ consensus_texts = <<>>
    /\ cpc = "off"

ConfOff ==
    /\ conf_results = <<>>
    /\ response_length = 0
    /\ confidence = [num |-> 0, den |-> 1]
    /\ fpc = "off"

\* query() has not returned
NoResponse == [answer |-> "none", confidence |-> [num |-> 0, den |-> 1], sources_count |-> 0]

\* self.faiss_index = None
NoIndex == [built |-> FALSE, vectors |-> <<>>]

\* self.query_stats as __init__ leaves it
NoQueryStats == [total_queries |-> 0, confidence_scores |-> <<>>, query_types |-> <<>>,
                 document_types |-> <<>>]

QueryOff ==
    /\ rag_chunks = <<>>
    /\ faiss_index = NoIndex
    /\ question = <<>>
    /\ max_context_length = 0
    /\ search_results = <<>>
    /\ context = <<>>
    /\ completion_calls = 0
    /\ response = NoResponse
    /\ qpc = "off"
    /\ query_stats = NoQueryStats
    /\ queries_made = 0

ChunkOff ==
    /\ ck_text = <<>>
    /\ ck_size = 0
    /\ ck_overlap = 0
    /\ ck_chunks = <<>>
    /\ kpc = "off"
    /\ ck_start = 0
    /\ ck_iterations = 0

\* cv2.imread returned None
NoImage  == [loaded |-> FALSE, imread_raises |-> FALSE, rectangles |-> 0, lines |-> 0,
             pie_circles |-> 0, scatter_circles |-> 0, ocr_fails |-> FALSE, ocr_text |-> <<>>]
\* cv2.imread raises on the path
RaisingImage == [NoImage EXCEPT !.imread_raises = TRUE]
NoScores == [bar_chart |-> 0, line_chart |-> 0, pie_chart |-> 0, scatter_plot |-> 0]
\* analyze_image returned None
NoChart  == [none |-> TRUE]

ChartOff ==
    /\ image = NoImage
    /\ chart_scores = NoScores
    /\ chart_type = "None"
    /\ chart_data = NoChart
    /\ apc = "off"

TitleOff ==
    /\ text_data = <<>>
    /\ titles = <<>>
    /\ tpc = "off"

\* results = {} of parallel_extraction
NoResults == [k \in {} |-> <<>>]

\* no analysis has been made
NoArtifact == [none |-> TRUE]

\* no call of analyze_pdf_complete is under way
ImageOff ==
    /\ pdf_paths = <<>>
    /\ pdf = <<>>
    /\ extraction_futures = <<>>
    /\ pages_saved = <<>>
    /\ extraction_results = <<>>
    /\ render_log = <<>>
    /\ final_pages = <<>>
    /\ ipc = <<>>
    /\ artifact = <<>>
    /\ multi_results = NoResults
    /\ multi_collected = 0
    /\ mpc = "off"

\* self.performance_stats as __init__ leaves it (the time fields are not modelled)
NoStats == [chart_detection |-> [success |-> 0, errors |-> 0],
            data_extraction |-> [success |-> 0, errors |-> 0]]

\* no image file is on disk
NoFiles == [path \in {} |-> path]

\* no call of analyze_batch is under way
BatchOff ==
    /\ image_files = NoFiles
    /\ image_paths = <<>>
    /\ futures = <<>>
    /\ performance_stats = NoStats
    /\ batch_results = <<>>
    /\ collected = <<>>
    /\ bpc = <<>>

SplitOff ==
    /\ sp_text = <<>>
    /\ sp_max_size = 0
    /\ sp_chunks = <<>>
    /\ spc = "off"

LateOff == BatchOff /\ SplitOff

MoreOff == QueryOff /\ ChunkOff /\ ChartOff /\ TitleOff /\ ImageOff /\ LateOff

\* ------------------------------------------------- actions of the store
RECURSIVE PutAllMetadata(_, _)
PutAllMetadata(meta, chunk_list) ==
    IF chunk_list = <<>> THEN meta
    ELSE PutAllMetadata(PutMetadata(meta, Head(chunk_list)), Tail(chunk_list))

\* the embeddings _add_chunks computes for its chunks (line 261)
Embeddings(chunk_list) == [i \in 1 .. Len(chunk_list) |-> Encode(chunk_list[i].text)]

\* _add_chunks run to its end on a store
AddChunks(vectors, chunk_list, meta, new_chunks) ==
    IF new_chunks = <<>>
    THEN [index |-> vectors, chunks |-> chunk_list, chunk_metadata |-> meta]
    ELSE [index          |-> vectors \o Embeddings(new_chunks),
          chunks         |-> chunk_list \o new_chunks,
          chunk_metadata |-> PutAllMetadata(meta, new_chunks)]

StoreInit ==
    /\ model_name = "mpnet"
    /\ index = <<>>
    /\ chunks = <<>>
    /\ chunk_metadata = EmptyMetadata
    /\ disk = EmptyDisk
    /\ pc = "idle"
    /\ batch = <<>>
    /\ stored = 0
    /\ base = 0
    /\ out = NoOut
    /\ search_call = NoSearch
    /\ saved = NoSaved

\* add_pdf_content up to and including self.index.add(embeddings) of _add_chunks
AddPdfContent(pdf_analysis) ==
    LET chunks_to_add == ChunksToAddOf[pdf_analysis]
    IN  /\ pc = "idle"
        /\ caller = "ready"
        /\ Len(index) + Len(chunks_to_add) <= MaxChunks
        /\ out' = NoOut
        /\ IF chunks_to_add = <<>>
           THEN UNCHANGED <<index, pc, batch, stored, base>>
           ELSE /\ index' = index \o Embeddings(chunks_to_add)
                /\ pc' = "storing"
                /\ batch' = chunks_to_add
                /\ stored' = 0
                /\ base' = Len(chunks)
        /\ UNCHANGED <<consVars, confVars, moreVars, model_name, chunks, chunk_metadata, disk,
                       saved, caller, search_call>>

\* one iteration of the loop of _add_chunks (lines 271-277); the last one returns
StoreChunk ==
    /\ pc = "storing"
    /\ LET chunk == batch[stored + 1]
       IN  /\ chunks' = Append(chunks, chunk)
           /\ chunk_metadata' = PutMetadata(chunk_metadata, chunk)
    /\ IF stored + 1 = Len(batch)
       THEN /\ pc' = "idle"
            /\ batch' = <<>>
            /\ stored' = 0
            /\ base' = 0
       ELSE /\ stored' = stored + 1
            /\ UNCHANGED <<pc, batch, base>>
    /\ out' = NoOut
    /\ UNCHANGED <<consVars, confVars, moreVars, model_name, index, disk, saved, caller,
                   search_call>>

\* search, from another thread, at any moment: lines 296-307.  The test of
\* ntotal, the embedding of the query and self.index.search are one step: the
\* index only grows, so a search that passed the test sees at index.search what
\* a search beginning at that moment sees.
Search(query, k, filter_type) ==
    /\ ~search_call.active
    /\ LET entry == SearchEntry(index, query, k)
       IN  IF entry.returns
           THEN /\ out' = [op |-> "search", query |-> query, k |-> k,
                           filter_type |-> filter_type, raised |-> "none",
                           results |-> <<>>, encode_calls |-> entry.encode_calls]
                /\ UNCHANGED search_call
           ELSE /\ search_call' = [active |-> TRUE, query |-> query, k |-> k,
                                   filter_type |-> filter_type, hits |-> entry.hits,
                                   rank |-> 0, results |-> <<>>,
                                   encode_calls |-> entry.encode_calls]
                /\ out' = NoOut
    /\ UNCHANGED <<consVars, confVars, moreVars, model_name, index, chunks, chunk_metadata,
                   disk, pc, batch, stored, base, saved, caller>>

\* one iteration of the loop of search (lines 311-326), which reads self.chunks
\* as it is now; after the last one search returns
SearchHit ==
    /\ search_call.active
    /\ LET r == SearchIteration(search_call.hits[search_call.rank + 1], search_call.rank,
                                chunks, search_call.filter_type, search_call.results)
           ends == r.raised # "none" \/ search_call.rank + 1 = Len(search_call.hits)
       IN  /\ search_call' = IF ends THEN NoSearch
                              ELSE [search_call EXCEPT !.rank = search_call.rank + 1,
                                                       !.results = r.results]
           /\ out' = IF ends
                     THEN [op |-> "search", query |-> search_call.query, k |-> search_call.k,
                           filter_type |-> search_call.filter_type, raised |-> r.raised,
                           results |-> r.results, encode_calls |-> search_call.encode_calls]
                     ELSE out
    /\ UNCHANGED <<consVars, confVars, moreVars, model_name, index, chunks, chunk_metadata,
                   disk, pc, batch, stored, base, saved, caller>>

StoreNext ==
    \/ \E a \in Analyses : AddPdfContent(a)
    \/ StoreChunk
    \/ \E q \in Queries, k \in 1 .. MaxK, f \in FilterTypes : Search(q, k, f)
    \/ SearchHit

\* ------------------------------ the store across processes (its callers)
\* Every caller (SimpleGroqRAG.__init__ and the two pipelines) constructs the store,
\* loads it and, when load_vector_store returned False, rebuilds it from one analysis
\* and saves it.  caller is the position of the running process in that sequence.

\* a new process: FAISSVectorStore.__init__ on the same directory
Construct(name) ==
    /\ caller = "ready"
    /\ model_name' = name
    /\ index' = <<>>
    /\ chunks' = <<>>
    /\ chunk_metadata' = EmptyMetadata
    /\ out' = NoOut
    /\ caller' = "constructed"
    /\ UNCHANGED <<consVars, confVars, moreVars, disk, pc, batch, stored, base, saved,
                   search_call>>

Load ==
    /\ caller = "constructed"
    /\ LET r == LoadVectorStore(model_name, index, chunks, chunk_metadata, disk)
       IN  /\ index' = r.index
           /\ chunks' = r.chunks
           /\ chunk_metadata' = r.chunk_metadata
           /\ out' = [op |-> "load", ret |-> r.ret]
           /\ caller' = IF r.ret THEN "ready" ELSE "rebuild"
    /\ UNCHANGED <<consVars, confVars, moreVars, model_name, disk, pc, batch, stored, base,
                       saved, search_call>>

\* add_pdf_content, whole, by the only thread of a starting process
Rebuild(pdf_analysis) ==
    LET chunks_to_add == ChunksToAddOf[pdf_analysis]
        r == AddChunks(index, chunks, chunk_metadata, chunks_to_add)
    IN  /\ caller = "rebuild"
        /\ Len(index) + Len(chunks_to_add) <= MaxChunks
        /\ index' = r.index
        /\ chunks' = r.chunks
        /\ chunk_metadata' = r.chunk_metadata
        /\ out' = NoOut
        /\ caller' = "added"
        /\ UNCHANGED <<consVars, confVars, moreVars, model_name, disk, pc, batch, stored, base,
                       saved, search_call>>

Save ==
    /\ caller = "added"
    /\ disk' = SaveVectorStore(model_name, index, chunks, chunk_metadata)
    /\ saved' = [valid |-> TRUE, model_name |-> model_name, index |-> index,
                 chunks |-> chunks, chunk_metadata |-> chunk_metadata]
    /\ out' = NoOut
    /\ caller' = "ready"
    /\ UNCHANGED <<consVars, confVars, moreVars, model_name, index, chunks, chunk_metadata,
                   pc, batch, stored, base, search_call>>

\* the environment removes one artifact of the directory
RemoveArtifact(a) ==
    /\ disk[a].exists
    /\ disk' = [disk EXCEPT ![a] = EmptyDisk[a]]
    /\ saved' = NoSaved
    /\ out' = NoOut
    /\ UNCHANGED <<consVars, confVars, moreVars, model_name, index, chunks, chunk_metadata,
                   pc, batch, stored, base, caller, search_call>>

PersistNext ==
    \/ \E name \in Models : Construct(name)
    \/ Load
    \/ \E a \in RebuildAnalyses : Rebuild(a)
    \/ Save
    \/ \E a \in Artifacts : RemoveArtifact(a)

\* a loaded store, searched while documents are added to it
InitStore == StoreInit /\ caller = "ready" /\ ConsOff /\ ConfOff /\ MoreOff

SpecStore == InitStore /\ [][StoreNext]_vars

\* the store and its directory across the processes that open it
InitPersist == StoreInit /\ caller = "constructed" /\ ConsOff /\ ConfOff /\ MoreOff

SpecPersist == InitPersist /\ [][PersistNext]_vars

\* ============================================ consensus text extraction
\* text.split(sep) for a one-character separator
RECURSIVE SplitFrom(_, _, _)
SplitFrom(text, sep, current) ==
    IF text = <<>> THEN <<current>>
    ELSE IF Head(text) = sep THEN <<current>> \o SplitFrom(Tail(text), sep, <<>>)
    ELSE SplitFrom(Tail(text), sep, Append(current, Head(text)))

Split(text, sep) == SplitFrom(text, sep, <<>>)

\* [p.strip() for p in text.split('\n') if p.strip()]
ParagraphsOf(text) ==
    LET lines == Split(text, "\n")
    IN  FlattenSeq([i \in 1 .. Len(lines) |->
            IF Strip(lines[i]) # <<>> THEN <<Strip(lines[i])>> ELSE <<>>])

\* the list extract_text_pdfplumber returns when page i of the document reads
\* page_texts[i] (page.extract_text() or "")
ExtractTextPdfplumber(page_texts) ==
    [i \in 1 .. Len(page_texts) |->
        [sayfa       |-> i,
         metin       |-> page_texts[i],
         paragraflar |-> ParagraphsOf(page_texts[i]),
         kaynak      |-> "pdfplumber"]]

DefaultFontSize == 12

RECURSIVE Gcd(_, _)
Gcd(a, b) == IF b = 0 THEN a ELSE Gcd(b, a % b)

RECURSIVE SumOf(_)
SumOf(numbers) == IF numbers = <<>> THEN 0 ELSE Head(numbers) + SumOf(Tail(numbers))

\* [c.get('size', 0) for c in chars if c.get('size')]: a character without a
\* size, or of size 0, gives none
FontSizesOf(chars) ==
    FlattenSeq([i \in 1 .. Len(chars) |->
        IF "size" \in DOMAIN chars[i] /\ chars[i].size # 0 THEN <<chars[i].size>> ELSE <<>>])

\* avg_font_size of lines 73-78, as the fraction num / den in lowest terms: the
\* mean of the sizes, 12 for a page without characters or without a size
AvgFontSize(chars) ==
    LET font_sizes == FontSizesOf(chars)
    IN  IF font_sizes = <<>> THEN [num |-> DefaultFontSize, den |-> 1]
        ELSE LET d == Gcd(SumOf(font_sizes), Len(font_sizes))
             IN  [num |-> SumOf(font_sizes) \div d, den |-> Len(font_sizes) \div d]

\* the list extract_text_alternative returns when page i of the document reads
\* page_texts[i] and has the characters page_chars[i] (page.chars)
ExtractTextAlternative(page_texts, page_chars) ==
    [i \in 1 .. Len(page_texts) |->
        [sayfa                 |-> i,
         metin                 |-> page_texts[i],
         paragraflar           |-> ParagraphsOf(page_texts[i]),
         ortalama_font_boyutu  |-> AvgFontSize(page_chars[i]),
         kaynak                |-> "pdfplumber_alternative"]]

\* Python's None for a page a list does not reach
NoRecord == [none |-> TRUE]

\* record.copy() with its confidence and validation set
Tagged(record, conf, validation) ==
    [f \in DOMAIN record \cup {"confidence", "validation"} |->
        IF f = "confidence" THEN conf
        ELSE IF f = "validation" THEN validation
        ELSE record[f]]

\* one iteration of the loop of consensus_text_extraction (i is 0-based)
ConsensusPage(i, plumber_list, alternative_list) ==
    LET page_num == i + 1
        text_plumber     == IF i < Len(plumber_list) THEN plumber_list[i + 1] ELSE NoRecord
        text_alternative == IF i < Len(alternative_list) THEN alternative_list[i + 1] ELSE NoRecord
    IN  IF text_plumber # NoRecord /\ text_alternative # NoRecord
        THEN IF Len(text_plumber.metin) > Len(text_alternative.metin)
             THEN Tagged(text_plumber, "high", "both_sources")
             ELSE Tagged(text_alternative, "high", "both_sources")
        ELSE IF text_plumber # NoRecord
        THEN Tagged(text_plumber, "medium", "pdfplumber_only")
        ELSE IF text_alternative # NoRecord
        THEN Tagged(text_alternative, "medium", "alternative_only")
        ELSE [sayfa |-> page_num, metin |-> <<>>, paragraflar |-> <<>>,
              confidence |-> "low", validation |-> "no_source"]

ConsensusTextExtraction(plumber_list, alternative_list) ==
    [p \in 1 .. Max(Len(plumber_list), Len(alternative_list)) |->
        ConsensusPage(p - 1, plumber_list, alternative_list)]

\* what page.extract_text() may give for a page
PageTexts == {<<>>, <<"a">>, <<"b">>, <<"a", "\n", "b">>}

\* what page.chars may give for a page
PageChars ==
    {<<>>,
     <<[text |-> "a", size |-> 10]>>,
     <<[text |-> "a", size |-> 8], [text |-> "b", size |-> 10]>>,
     <<[text |-> "a"], [text |-> "b", size |-> 0]>>}

StoreOff ==
    /\ StoreInit
    /\ caller = "ready"

InitConsensus ==
    /\ texts_pdfplumber \in {ExtractTextPdfplumber(t) : t \in SeqsUpTo(PageTexts, MaxPages)}
    /\ \E t \in SeqsUpTo(PageTexts, MaxPages) :
           \E c \in {d \in SeqsUpTo(PageChars, MaxPages) : Len(d) = Len(t)} :
               texts_alternative = ExtractTextAlternative(t, c)
    /\ consensus_texts = <<>>
    /\ cpc = "input"
    /\ StoreOff /\ ConfOff /\ MoreOff

RunConsensus ==
    /\ cpc = "input"
    /\ consensus_texts' = ConsensusTextExtraction(texts_pdfplumber, texts_alternative)
    /\ cpc' = "done"
    /\ UNCHANGED <<storeVars, confVars, moreVars, texts_pdfplumber, texts_alternative>>

ConsensusNext == RunConsensus

SpecConsensus == InitConsensus /\ [][ConsensusNext]_vars

\* ================================================== _calculate_confidence
\* Similarities are in hundredths (SimScale); the score is the exact fraction
\* num / den of the float the code computes.
SimScale   == 100
LengthNorm == 500
SourceNorm == 5
TypeNorm   == 3
\* the weights 0.5, 0.2, 0.2, 0.1 in tenths
WSimilarity == 5
WLength     == 2
WSource     == 2
WType       == 1
WeightScale == 10

RECURSIVE SumSimilarity(_)
SumSimilarity(results) ==
    IF results = <<>> THEN 0 ELSE Head(results).similarity + SumSimilarity(Tail(results))

CalculateConfidence(results, length) ==
    IF results = <<>> THEN [num |-> 0, den |-> 1]
    ELSE
        LET n     == Len(results)
            types == {results[i].type : i \in 1 .. n}
            den   == WeightScale * SimScale * n * LengthNorm * SourceNorm * TypeNorm
            \* avg_similarity * 0.5
            sim_term    == WSimilarity * SumSimilarity(results)
                               * LengthNorm * SourceNorm * TypeNorm
            \* min(response_length / 500, 1.0) * 0.2
            length_term == WLength * Min(length, LengthNorm)
                               * SimScale * n * SourceNorm * TypeNorm
            \* min(len(results) / 5, 1.0) * 0.2
            source_term == WSource * Min(n, SourceNorm)
                               * SimScale * n * LengthNorm * TypeNorm
            \* min(len(types) / 3, 1.0) * 0.1
            type_term   == WType * Min(Cardinality(types), TypeNorm)
                               * SimScale * n * LengthNorm * SourceNorm
            conf == sim_term + length_term + source_term + type_term
        IN  [num |-> Min(conf, den), den |-> den]

Similarities    == {-100, 0, 100}
ResultTypes     == {"text", "chart"}
ResponseLengths == {0, 250, 1000}

InitConfidence ==
    /\ conf_results \in SeqsUpTo([similarity : Similarities, type : ResultTypes], MaxResults)
    /\ response_length \in ResponseLengths
    /\ confidence = [num |-> 0, den |-> 1]
    /\ fpc = "input"
    /\ StoreOff /\ ConsOff /\ MoreOff

RunConfidence ==
    /\ fpc = "input"
    /\ confidence' = CalculateConfidence(conf_results, response_length)
    /\ fpc' = "done"
    /\ UNCHANGED <<storeVars, consVars, moreVars, conf_results, response_length>>

ConfidenceNext == RunConfidence

SpecConfidence == InitConfidence /\ [][ConfidenceNext]_vars

\* ========================================== GroqOptimizedSimpleRAG.query
MaxRagChunks == 2    \* chunks the engine has loaded

\* k=5 of the search query() makes
TopK == 5

\* |v|^2 of the vectors of Encode; normalize_L2 divides the inner product by it
NormSquared == 25

\* the engine's faiss index over its chunks (_create_faiss_index)
CreateFaissIndex(chunk_list) ==
    [built |-> TRUE, vectors |-> [i \in 1 .. Len(chunk_list) |-> Encode(chunk_list[i].content)]]

\* _search_similar_chunks(query, k); search_raises: the embedding model or faiss raises,
\* which the method catches
SearchSimilarChunks(faiss, chunk_list, query, k, search_raises) ==
    IF ~faiss.built \/ chunk_list = <<>> THEN <<>>
    ELSE IF search_raises THEN <<>>
    ELSE
        LET hits == IndexSearch(faiss.vectors, Encode(query), k)
        IN  FlattenSeq([i \in 1 .. Len(hits) |->
                IF 0 <= hits[i].idx /\ hits[i].idx < Len(chunk_list)
                THEN <<[content    |-> chunk_list[hits[i].idx + 1].content,
                        metadata   |-> chunk_list[hits[i].idx + 1].metadata,
                        type       |-> chunk_list[hits[i].idx + 1].type,
                        page       |-> chunk_list[hits[i].idx + 1].page,
                        similarity |-> (hits[i].score * SimScale) \div NormSquared,
                        rank       |-> i]>>
                ELSE <<>>])

\* chunk_type.upper()
Upper(chunk_type) ==
    CASE chunk_type = "text"  -> <<"T", "E", "X", "T">>
      [] chunk_type = "chart" -> <<"C", "H", "A", "R", "T">>
      [] chunk_type = "title" -> <<"T", "I", "T", "L", "E">>

\* f"{similarity:.3f}" of a similarity given in hundredths
Format3f(similarity) ==
    LET t == (IF similarity < 0 THEN 0 - similarity ELSE similarity) * (1000 \div SimScale)
    IN  (IF similarity < 0 THEN <<"-">> ELSE <<>>)
        \o Str(t \div 1000) \o <<".">>
        \o <<Digits[((t \div 100) % 10) + 1], Digits[((t \div 10) % 10) + 1],
             Digits[(t % 10) + 1]>>

\* f"[Kaynak {rank} - {TYPE} - Sayfa {page} - Benzerlik: {similarity:.3f}]\n{content}"
ContextPart(result) ==
    <<"[", "K", "a", "y", "n", "a", "k", " ">> \o Str(result.rank)
    \o <<" ", "-", " ">> \o Upper(result.type)
    \o <<" ", "-", " ", "S", "a", "y", "f", "a", " ">> \o Str(result.page)
    \o <<" ", "-", " ", "B", "e", "n", "z", "e", "r", "l", "i", "k", ":", " ">>
    \o Format3f(result.similarity) \o <<"]", "\n">> \o result.content

\* _create_context_from_results
CreateContextFromResults(results) ==
    Join([i \in 1 .. Len(results) |-> ContextPart(results[i])], <<"\n", "\n">>)

\* lines 283-284: context[:max_context_length] + "..."
LimitContext(ctx, max_length) ==
    IF Len(ctx) > max_length THEN Slice(ctx, 0, max_length) \o <<".", ".", ".">> ELSE ctx

\* the fixed answer of line 270 (written in ASCII, one token)
NoInformationAnswer == "Uzgunum, sorunuzla ilgili bilgi bulunamadi."

RagChunkInputs ==
    {[content |-> c, type |-> t, page |-> 1, metadata |-> [type |-> t, page |-> 1]] :
        c \in {<<"a">>, <<"b", "c">>}, t \in ResultTypes}

MaxContextLengths == {0, 40, 2000}

\* what the completion service may do: raise, return a response without choices
\* (response.choices[0] then raises), or answer with so many characters
CompletionOutcomes == {"raises", "malformed", "answers"}

MaxQueries == 2    \* calls of query() on one engine

OthersOffQuery == ChunkOff /\ ChartOff /\ TitleOff /\ ImageOff /\ LateOff

InitQuery ==
    /\ rag_chunks \in SeqsUpTo(RagChunkInputs, MaxRagChunks)
    /\ faiss_index \in (IF rag_chunks = <<>> THEN {NoIndex}
                        ELSE {NoIndex, CreateFaissIndex(rag_chunks)})
    /\ question \in Queries
    /\ max_context_length \in MaxContextLengths
    /\ search_results = <<>>
    /\ context = <<>>
    /\ completion_calls = 0
    /\ response = NoResponse
    /\ qpc = "start"
    /\ query_stats = NoQueryStats
    /\ queries_made = 1
    /\ StoreOff /\ ConsOff /\ ConfOff /\ OthersOffQuery

\* query() without the return of lines 268-277
QueryRetrieveNoShortCircuit(search_raises) ==
    LET found == SearchSimilarChunks(faiss_index, rag_chunks, question, TopK, search_raises)
    IN  /\ search_results' = found
        /\ context' = LimitContext(CreateContextFromResults(found), max_context_length)
        /\ qpc' = "prompted"
        /\ UNCHANGED response

\* query(), lines 262-293: retrieval, the empty short-circuit, the context and its limit
QueryRetrieveFor(search_raises) ==
    LET found == SearchSimilarChunks(faiss_index, rag_chunks, question, TopK, search_raises)
    IN  /\ search_results' = found
        /\ IF found = <<>>
           THEN /\ response' = [answer |-> NoInformationAnswer,
                                confidence |-> [num |-> 0, den |-> 1],
                                sources_count |-> 0]
                /\ qpc' = "returned"
                /\ UNCHANGED context
           ELSE /\ context' = LimitContext(CreateContextFromResults(found), max_context_length)
                /\ qpc' = "prompted"
                /\ UNCHANGED response

QueryRetrieve ==
    /\ qpc = "start"
    /\ \E search_raises \in BOOLEAN : QueryRetrieveFor(search_raises)
    /\ UNCHANGED <<rag_chunks, faiss_index, question, max_context_length, completion_calls,
                   query_stats, queries_made>>
    /\ UNCHANGED <<lateVars, storeVars, consVars, confVars, chunkVars, chartVars, titleVars, imageVars>>

\* _update_stats; the questions and contexts of the model hold none of the key
\* words of detect_query_type and detect_document_type
UpdateStats(stats, conf) ==
    [total_queries     |-> stats.total_queries + 1,
     confidence_scores |-> Append(stats.confidence_scores, conf),
     query_types       |-> Append(stats.query_types, "factual"),
     document_types    |-> Append(stats.document_types, "general_document")]

\* statistics that count the failed queries too, with confidence 0
StatsAfterCountsFailures(stats, outcome, conf) ==
    UpdateStats(stats, IF outcome = "answers" THEN conf ELSE [num |-> 0, den |-> 1])

\* self.query_stats after lines 296-318: _update_stats is reached only when no
\* earlier step has raised
StatsAfter(stats, outcome, conf) ==
    IF outcome = "answers" THEN UpdateStats(stats, conf) ELSE stats

\* the answer of the except branch, f'Hata olustu: {str(e)}' (one token)
ErrorAnswer == "Hata olustu"

\* query(), lines 295-339: the completion call, the confidence, the statistics and
\* the returned dict
QueryComplete ==
    /\ qpc = "prompted"
    /\ completion_calls' = completion_calls + 1
    /\ \E outcome \in CompletionOutcomes, length \in ResponseLengths :
           /\ response' = IF outcome # "answers"
                          THEN [answer |-> ErrorAnswer, confidence |-> [num |-> 0, den |-> 1],
                                sources_count |-> 0]
                          ELSE [answer |-> "formatted_answer",
                                confidence |-> CalculateConfidence(search_results, length),
                                sources_count |-> Len(search_results)]
           /\ query_stats' = StatsAfter(query_stats, outcome,
                                        CalculateConfidence(search_results, length))
    /\ qpc' = "returned"
    /\ UNCHANGED <<rag_chunks, faiss_index, question, max_context_length, search_results,
                   context, queries_made>>
    /\ UNCHANGED <<lateVars, storeVars, consVars, confVars, chunkVars, chartVars, titleVars, imageVars>>

\* the caller asks the engine another question
QueryAgain ==
    /\ qpc = "returned"
    /\ queries_made < MaxQueries
    /\ queries_made' = queries_made + 1
    /\ question' \in Queries
    /\ max_context_length' \in MaxContextLengths
    /\ search_results' = <<>>
    /\ context' = <<>>
    /\ completion_calls' = 0
    /\ response' = NoResponse
    /\ qpc' = "start"
    /\ UNCHANGED <<rag_chunks, faiss_index, query_stats>>
    /\ UNCHANGED <<lateVars, storeVars, consVars, confVars, chunkVars, chartVars, titleVars, imageVars>>

QueryNext == QueryRetrieve \/ QueryComplete \/ QueryAgain

SpecQuery == InitQuery /\ [][QueryNext]_vars

\* ============================================================ _chunk_text
MaxTextLen == 6    \* characters of a text given to _chunk_text

ChunkAlphabet == {"a", ".", "!", "?", " "}

\* (chunk_size, overlap): a small window, and the defaults of the signature
ChunkParams == {<<5, 0>>, <<5, 1>>, <<ChunkSize, ChunkOverlap>>}

OthersOffChunk == QueryOff /\ ChartOff /\ TitleOff /\ ImageOff /\ LateOff

InitChunk ==
    /\ ck_text \in SeqsUpTo(ChunkAlphabet, MaxTextLen)
    /\ \E params \in ChunkParams : ck_size = params[1] /\ ck_overlap = params[2]
    /\ ck_chunks = <<>>
    /\ kpc = "input"
    /\ ck_start = 0
    /\ ck_iterations = 0
    /\ StoreOff /\ ConsOff /\ ConfOff /\ OthersOffChunk

RunChunkText ==
    /\ kpc = "input"
    /\ ck_chunks' = ChunkText(ck_text, ck_size, ck_overlap)
    /\ kpc' = "done"
    /\ UNCHANGED <<ck_text, ck_size, ck_overlap, ck_start, ck_iterations>>
    /\ UNCHANGED <<lateVars, storeVars, consVars, confVars, queryVars, chartVars, titleVars, imageVars>>

ChunkNext == RunChunkText

SpecChunk == InitChunk /\ [][ChunkNext]_vars

\* ------------------------------------- the loop of _chunk_text, step by step
MaxIterations == 8    \* iterations of the loop that are followed

\* the position Python takes for a slice bound i of a string of n characters
PyPos(i, n) == IF i < 0 THEN Max(i + n, 0) ELSE Min(i, n)

\* one iteration of the while loop of lines 128-147 from that start: the end of
\* the chunk and the stripped chunk
ChunkIterationOf(text, chunk_size, overlap, start) ==
    LET n    == Len(text)
        end0 == start + chunk_size
        from == PyPos(start, n)
        dot  == RFind(text, ".", from, PyPos(end0, n))
        exc  == IF dot = -1 THEN RFind(text, "!", from, PyPos(end0, n)) ELSE dot
        sentence_end == IF exc = -1 THEN RFind(text, "?", from, PyPos(end0, n)) ELSE exc
        end  == IF end0 < n /\ sentence_end # -1
                   /\ sentence_end > start + (chunk_size \div 2)
                THEN sentence_end + 1 ELSE end0
    IN  [end |-> end, chunk |-> Strip(Slice(text, from, PyPos(end, n)))]

LoopAlphabet == {"a", ".", "!"}

\* every chunk_size >= 1 up to the longest text, with every 0 <= overlap < chunk_size
LoopParams == {p \in (1 .. MaxTextLen) \X (0 .. MaxTextLen) : p[2] < p[1]}

InitChunkLoop ==
    /\ ck_text \in SeqsUpTo(LoopAlphabet, MaxTextLen)
    /\ \E params \in LoopParams : ck_size = params[1] /\ ck_overlap = params[2]
    /\ ck_chunks = <<>>
    /\ kpc = "input"
    /\ ck_start = 0
    /\ ck_iterations = 0
    /\ StoreOff /\ ConsOff /\ ConfOff /\ OthersOffChunk

\* lines 121-126: the early return of a short text, or the loop is entered
ChunkEnter ==
    /\ kpc = "input"
    /\ IF Len(ck_text) <= ck_size
       THEN ck_chunks' = <<ck_text>> /\ kpc' = "done"
       ELSE ck_chunks' = <<>> /\ kpc' = "loop"
    /\ UNCHANGED <<ck_text, ck_size, ck_overlap, ck_start, ck_iterations>>
    /\ UNCHANGED <<lateVars, storeVars, consVars, confVars, queryVars, chartVars, titleVars, imageVars>>

\* one iteration of the loop
ChunkIterate ==
    /\ kpc = "loop"
    /\ ck_start < Len(ck_text)
    /\ ck_iterations < MaxIterations
    /\ LET it == ChunkIterationOf(ck_text, ck_size, ck_overlap, ck_start)
       IN  /\ ck_chunks' = IF it.chunk # <<>> THEN Append(ck_chunks, it.chunk) ELSE ck_chunks
           /\ ck_start' = it.end - ck_overlap
    /\ ck_iterations' = ck_iterations + 1
    /\ UNCHANGED <<ck_text, ck_size, ck_overlap, kpc>>
    /\ UNCHANGED <<lateVars, storeVars, consVars, confVars, queryVars, chartVars, titleVars, imageVars>>

\* the loop condition fails and the chunks are returned
ChunkExit ==
    /\ kpc = "loop"
    /\ ~(ck_start < Len(ck_text))
    /\ kpc' = "done"
    /\ UNCHANGED <<ck_text, ck_size, ck_overlap, ck_chunks, ck_start, ck_iterations>>
    /\ UNCHANGED <<lateVars, storeVars, consVars, confVars, queryVars, chartVars, titleVars, imageVars>>

ChunkLoopNext == ChunkEnter \/ ChunkIterate \/ ChunkExit

SpecChunkLoop == InitChunkLoop /\ [][ChunkLoopNext]_vars

\* ========================================================= ChartAnalyzer
\* Detector scores and confidences are in hundredths.
ScoreScale == 100

BarMinRectangles == 3
BarCap           == 80
BarDivisor       == 10
LineMinLines     == 5
LineCap          == 70
LineDivisor      == 20
PieMinCircles    == 1
PieScore         == 80
ScatterMinCircles == 5
ScatterCap       == 70
ScatterDivisor   == 20
\* best_confidence < 0.3
MinTypeConfidence == 30
\* confidence=0.8 of the ChartData of line 307
BaseConfidence == 80
\* len(line) > 5 of _extract_title
TitleMinLen == 5

\* _detect_bar_chart on an image with so many 4-vertex contours of area > 100
DetectBarChartStrict(rectangles) ==
    IF rectangles > BarMinRectangles
    THEN Min(BarCap, (rectangles * ScoreScale) \div BarDivisor) ELSE 0

DetectBarChart(rectangles) ==
    IF rectangles >= BarMinRectangles
    THEN Min(BarCap, (rectangles * ScoreScale) \div BarDivisor) ELSE 0

\* _detect_line_chart on an image with so many Hough line segments (None: 0)
DetectLineChart(line_count) ==
    IF line_count >= LineMinLines
    THEN Min(LineCap, (line_count * ScoreScale) \div LineDivisor) ELSE 0

\* _detect_pie_chart on an image with so many circles of radius 10..200
DetectPieChart(circles) == IF circles >= PieMinCircles THEN PieScore ELSE 0

\* _detect_scatter_plot on an image with so many circles of radius 2..10
DetectScatterPlot(circles) ==
    IF circles >= ScatterMinCircles
    THEN Min(ScatterCap, (circles * ScoreScale) \div ScatterDivisor) ELSE 0

\* self.chart_types, in the order of the dict
ChartTypes == <<"bar_chart", "line_chart", "pie_chart", "scatter_plot">>

DetectorScores(img) ==
    [bar_chart    |-> DetectBarChart(img.rectangles),
     line_chart   |-> DetectLineChart(img.lines),
     pie_chart    |-> DetectPieChart(img.pie_circles),
     scatter_plot |-> DetectScatterPlot(img.scatter_circles)]

\* the loop of lines 157-164 from the i-th chart type on
RECURSIVE BestType(_, _, _, _)
BestType(scores, i, best_type, best_confidence) ==
    IF i > Len(ChartTypes) THEN [type |-> best_type, confidence |-> best_confidence]
    ELSE IF scores[ChartTypes[i]] > best_confidence
    THEN BestType(scores, i + 1, ChartTypes[i], scores[ChartTypes[i]])
    ELSE BestType(scores, i + 1, best_type, best_confidence)

\* _detect_chart_type with a threshold that also rejects a score of exactly 0.3
DetectChartTypeAbove(scores) ==
    LET best == BestType(scores, 1, "None", 0)
    IN  IF best.confidence <= MinTypeConfidence THEN [type |-> "None", confidence |-> 0]
        ELSE best

\* _detect_chart_type, given the scores of the four detectors
DetectChartType(scores) ==
    LET best == BestType(scores, 1, "None", 0)
    IN  IF best.confidence < MinTypeConfidence THEN [type |-> "None", confidence |-> 0]
        ELSE best

\* _extract_text_ocr: the stripped non-empty lines of the OCR text, [] when OCR raises
ExtractTextOcr(img) == IF img.ocr_fails THEN <<>> ELSE ParagraphsOf(img.ocr_text)

\* _extract_title
ExtractTitle(text_lines) ==
    LET candidates == {i \in 1 .. Len(text_lines) : Len(text_lines[i]) > TitleMinLen}
    IN  IF candidates = {} THEN NoneStr
        ELSE text_lines[CHOOSE i \in candidates : \A j \in candidates : i <= j]

UpperLetters == <<"A", "B", "C", "D", "E", "F", "G", "H", "I", "J", "K", "L", "M",
                  "N", "O", "P", "Q", "R", "S", "T", "U", "V", "W", "X", "Y", "Z">>
LowerLetters == <<"a", "b", "c", "d", "e", "f", "g", "h", "i", "j", "k", "l", "m",
                  "n", "o", "p", "q", "r", "s", "t", "u", "v", "w", "x", "y", "z">>

IsUpperChar(c) == \E i \in 1 .. Len(UpperLetters) : UpperLetters[i] = c

LowerChar(c) ==
    IF IsUpperChar(c)
    THEN LowerLetters[CHOOSE i \in 1 .. Len(UpperLetters) : UpperLetters[i] = c]
    ELSE c

\* str.lower()
Lower(text) == [i \in 1 .. Len(text) |-> LowerChar(text[i])]

\* sub in text
Contains(text, sub) ==
    \E i \in 0 .. Len(text) - Len(sub) : SubSeq(text, i + 1, i + Len(sub)) = sub

\* axis_patterns of _extract_axis_label (the g with breve of the Turkish word for
\* value is one token)
AxisPatterns(axis) ==
    IF axis = "x"
    THEN {<<"x">>, <<"h", "o", "r", "i", "z", "o", "n", "t", "a", "l">>,
          <<"y", "a", "t", "a", "y">>, <<"z", "a", "m", "a", "n">>, <<"t", "i", "m", "e">>}
    ELSE {<<"y">>, <<"v", "e", "r", "t", "i", "c", "a", "l">>, <<"d", "i", "k", "e", "y">>,
          <<"d", "e", "g-breve", "e", "r">>, <<"v", "a", "l", "u", "e">>,
          <<"m", "i", "k", "t", "a", "r">>}

\* _extract_axis_label
ExtractAxisLabel(text_lines, axis) ==
    LET hits == {i \in 1 .. Len(text_lines) :
                    \E pattern \in AxisPatterns(axis) : Contains(Lower(text_lines[i]), pattern)}
    IN  IF hits = {} THEN NoneStr
        ELSE text_lines[CHOOSE i \in hits : \A j \in hits : i <= j]

IsDigitChar(c) == \E i \in 1 .. Len(Digits) : Digits[i] = c

\* the last position of the run of digits that begins at position pos (1-based)
DigitRunEnd(line, pos) ==
    CHOOSE j \in pos .. Len(line) :
        /\ \A i \in pos .. j : IsDigitChar(line[i])
        /\ (j = Len(line) \/ ~IsDigitChar(line[j + 1]))

\* the last position of the match of \d+(?:\.\d+)? that begins at pos
NumberEnd(line, pos) ==
    LET j == DigitRunEnd(line, pos)
    IN  IF j + 2 <= Len(line) /\ line[j + 1] = "." /\ IsDigitChar(line[j + 2])
        THEN DigitRunEnd(line, j + 2) ELSE j

\* re.findall(r'\d+(?:\.\d+)?', line) from position pos on
RECURSIVE FindNumbersFrom(_, _)
FindNumbersFrom(line, pos) ==
    IF pos > Len(line) THEN <<>>
    ELSE IF IsDigitChar(line[pos])
    THEN <<SubSeq(line, pos, NumberEnd(line, pos))>>
             \o FindNumbersFrom(line, NumberEnd(line, pos) + 1)
    ELSE FindNumbersFrom(line, pos + 1)

FindNumbers(line) == FindNumbersFrom(line, 1)

RECURSIVE IntOf(_)
\* int of a string of digits
IntOf(digits) ==
    IF digits = <<>> THEN 0
    ELSE 10 * IntOf(SubSeq(digits, 1, Len(digits) - 1))
         + ((CHOOSE i \in 1 .. Len(Digits) : Digits[i] = digits[Len(digits)]) - 1)

RECURSIVE PowerOfTen(_)
PowerOfTen(n) == IF n = 0 THEN 1 ELSE 10 * PowerOfTen(n - 1)

RECURSIVE Reduce(_, _)
\* the same number with the fewest decimals
Reduce(num, den) == IF den > 1 /\ num % 10 = 0 THEN Reduce(num \div 10, den \div 10)
                    ELSE [num |-> num, den |-> den]

\* float(num) of a token of the pattern: the number num / den, den a power of ten
ParseFloat(token) ==
    LET dots == {i \in 1 .. Len(token) : token[i] = "."}
    IN  IF dots = {} THEN [num |-> IntOf(token), den |-> 1]
        ELSE LET d == CHOOSE i \in dots : TRUE
                 fraction == SubSeq(token, d + 1, Len(token))
             IN  Reduce(IntOf(SubSeq(token, 1, d - 1) \o fraction), PowerOfTen(Len(fraction)))

\* numbers of lines 415-418: the numbers of every line, in order
NumbersOf(text_lines) ==
    FlattenSeq([i \in 1 .. Len(text_lines) |->
        [j \in 1 .. Len(FindNumbers(text_lines[i])) |-> ParseFloat(FindNumbers(text_lines[i])[j])]])

\* _extract_bar_data
ExtractBarData(text_lines) ==
    LET numbers == NumbersOf(text_lines)
    IN  [i \in 1 .. Len(numbers) |->
            [category |-> <<"B", "a", "r", " ">> \o Str(i), value |-> numbers[i], type |-> "bar"]]

\* _extract_line_data with a window that slides by one number
ExtractLineDataSliding(text_lines) ==
    LET numbers == NumbersOf(text_lines)
    IN  [j \in 1 .. Max(Len(numbers) - 1, 0) |->
            [x |-> numbers[j], y |-> numbers[j + 1], type |-> "line_point"]]

\* _extract_line_data: for i in range(0, len(numbers)-1, 2), with i+1 < len(numbers)
ExtractLineData(text_lines) ==
    LET numbers == NumbersOf(text_lines)
        starts  == {i \in 0 .. Len(numbers) - 2 : i % 2 = 0 /\ i + 1 < Len(numbers)}
    IN  [j \in 1 .. Cardinality(starts) |->
            [x |-> numbers[2 * (j - 1) + 1], y |-> numbers[2 * (j - 1) + 2],
             type |-> "line_point"]]

\* _extract_scatter_data
ExtractScatterData(text_lines) == ExtractLineData(text_lines)

\* the last position of the match of (\d+(?:\.\d+)?)\s*% that begins at pos, 0 if none
PercentEnd(line, pos) ==
    IF pos > Len(line) \/ ~IsDigitChar(line[pos]) THEN 0
    ELSE LET n == NumberEnd(line, pos)
             ends == {k \in n + 1 .. Len(line) :
                         /\ line[k] = "%"
                         /\ \A i \in n + 1 .. k - 1 : line[i] \in Whitespace}
         IN  IF ends = {} THEN 0 ELSE CHOOSE k \in ends : TRUE

\* line.replace(old, '') for a non-empty old
RECURSIVE Remove(_, _)
Remove(line, old) ==
    IF Len(line) < Len(old) THEN line
    ELSE IF SubSeq(line, 1, Len(old)) = old
    THEN Remove(SubSeq(line, Len(old) + 1, Len(line)), old)
    ELSE <<Head(line)>> \o Remove(Tail(line), old)

\* _extract_pie_data from the i-th line on
RECURSIVE ExtractPieFrom(_, _, _)
ExtractPieFrom(text_lines, i, data_points) ==
    IF i > Len(text_lines) THEN data_points
    ELSE
        LET line   == text_lines[i]
            starts == {p \in 1 .. Len(line) : PercentEnd(line, p) # 0}
        IN  IF starts = {} THEN ExtractPieFrom(text_lines, i + 1, data_points)
            ELSE
                LET p     == CHOOSE q \in starts : \A r \in starts : q <= r
                    label == Strip(Remove(line, SubSeq(line, p, PercentEnd(line, p))))
                IN  ExtractPieFrom(text_lines, i + 1, Append(data_points,
                        [label |-> IF label # <<>> THEN label
                                   ELSE <<"S", "e", "g", "m", "e", "n", "t", " ">>
                                            \o Str(Len(data_points) + 1),
                         percentage |-> ParseFloat(SubSeq(line, p, NumberEnd(line, p))),
                         type |-> "pie_segment"]))

ExtractPieData(text_lines) == ExtractPieFrom(text_lines, 1, <<>>)

\* _extract_chart_data that trusts a chart only when its OCR succeeded
ExtractChartDataOcrAware(img, type) ==
    LET extracted_text == ExtractTextOcr(img)
    IN  [chart_type     |-> type,
         title          |-> ExtractTitle(extracted_text),
         x_axis_label   |-> ExtractAxisLabel(extracted_text, "x"),
         y_axis_label   |-> ExtractAxisLabel(extracted_text, "y"),
         data_points    |-> <<>>,
         confidence     |-> IF img.ocr_fails THEN 0 ELSE BaseConfidence,
         extracted_text |-> extracted_text]

\* _extract_chart_data: every step that can fail catches its own exception, so the
\* except branch of lines 311-322 (confidence 0.0) is not taken
ExtractChartData(img, type) ==
    LET extracted_text == ExtractTextOcr(img)
    IN  [chart_type     |-> type,
         title          |-> ExtractTitle(extracted_text),
         x_axis_label   |-> ExtractAxisLabel(extracted_text, "x"),
         y_axis_label   |-> ExtractAxisLabel(extracted_text, "y"),
         data_points    |-> CASE type = "bar_chart"  -> ExtractBarData(extracted_text)
                              [] type = "line_chart" -> ExtractLineData(extracted_text)
                              [] type = "pie_chart"  -> ExtractPieData(extracted_text)
                              [] OTHER               -> ExtractScatterData(extracted_text),
         confidence     |-> BaseConfidence,
         extracted_text |-> extracted_text]

RectangleCounts == {0, 2, 3, 8, 9}
LineCounts      == {0, 4, 5, 6, 14, 15}
PieCircleCounts == {0, 1}
ScatterCounts   == {0, 5, 6, 14}

\* what pytesseract may read in the image
OcrTexts ==
    {<<>>,
     <<"1", " ", "2", "\n", "3">>,
     <<"1", ".", "5", " ", "2", " ", "3", " ", "4", "\n", "x", " ", "0", "7", ".">>,
     <<"S", "a", "l", "e", "s", " ", "2", "0", "%", "\n", "3", "0", " ", "%", "\n", "y">>,
     <<"T", "i", "m", "e", " ", "1", "\n", "2", ".", "5", "0", " ", "a", "3", "\n",
       "4", " ", "5">>}

Images ==
    [loaded : {TRUE}, imread_raises : {FALSE}, rectangles : RectangleCounts,
     lines : LineCounts, pie_circles : PieCircleCounts, scatter_circles : ScatterCounts,
     ocr_fails : BOOLEAN, ocr_text : OcrTexts] \cup {NoImage, RaisingImage}

\* images of the files and pages of the model: a bar chart with numbers, a pie
\* chart whose OCR fails, an image without a chart, a bar chart with a title
BarImage == [loaded |-> TRUE, imread_raises |-> FALSE, rectangles |-> 3, lines |-> 0,
             pie_circles |-> 0, scatter_circles |-> 0, ocr_fails |-> FALSE,
             ocr_text |-> <<"1", " ", "2", "\n", "3">>]
PieImage == [loaded |-> TRUE, imread_raises |-> FALSE, rectangles |-> 0, lines |-> 0,
             pie_circles |-> 1, scatter_circles |-> 0, ocr_fails |-> TRUE, ocr_text |-> <<>>]
BlankImage == [loaded |-> TRUE, imread_raises |-> FALSE, rectangles |-> 2, lines |-> 4,
               pie_circles |-> 0, scatter_circles |-> 0, ocr_fails |-> FALSE,
               ocr_text |-> <<>>]
TitledImage == [loaded |-> TRUE, imread_raises |-> FALSE, rectangles |-> 3, lines |-> 0,
                pie_circles |-> 0, scatter_circles |-> 0, ocr_fails |-> FALSE,
                ocr_text |-> <<"a", "b", "c", "a", "b", "c">>]

\* analyze_image on an image: what it returns, and the counters of
\* self.performance_stats it increments, in the order of the increments
AnalyzeImageOutcome(img) ==
    IF img.imread_raises
    THEN [result |-> NoChart, counters |-> << <<"chart_detection", "errors">> >>]
    ELSE IF ~img.loaded
    THEN [result |-> NoChart, counters |-> <<>>]
    ELSE LET type == DetectChartType(DetectorScores(img)).type
         IN  IF type = "None"
             THEN [result |-> NoChart, counters |-> <<>>]
             ELSE [result   |-> ExtractChartData(img, type),
                   counters |-> << <<"data_extraction", "success">>,
                                   <<"chart_detection", "success">> >>]

\* self.performance_stats[...][...] += 1 for each of the counters, by one thread
RECURSIVE CountAll(_, _)
CountAll(stats, counters) ==
    IF counters = <<>> THEN stats
    ELSE CountAll([stats EXCEPT ![Head(counters)[1]][Head(counters)[2]] = @ + 1],
                  Tail(counters))

OthersOffChart == QueryOff /\ ChunkOff /\ TitleOff /\ ImageOff /\ LateOff

InitChart ==
    /\ image \in Images
    /\ chart_scores = NoScores
    /\ chart_type = "None"
    /\ chart_data = NoChart
    /\ apc = "input"
    /\ StoreOff /\ ConsOff /\ ConfOff /\ OthersOffChart

\* analyze_image, called by one thread
AnalyzeImage ==
    /\ apc = "input"
    /\ IF image.imread_raises \/ ~image.loaded
       THEN UNCHANGED <<chart_scores, chart_type>>
       ELSE /\ chart_scores' = DetectorScores(image)
            /\ chart_type' = DetectChartType(DetectorScores(image)).type
    /\ chart_data' = AnalyzeImageOutcome(image).result
    /\ performance_stats' = CountAll(performance_stats, AnalyzeImageOutcome(image).counters)
    /\ apc' = "done"
    /\ UNCHANGED image
    /\ UNCHANGED <<image_files, callVars, splitVars>>
    /\ UNCHANGED <<storeVars, consVars, confVars, queryVars, chunkVars, titleVars, imageVars>>

ChartNext == AnalyzeImage

SpecChart == InitChart /\ [][ChartNext]_vars

\* ================================================ extract_titles_from_text
MaxTitleParagraphs == 2    \* paragraphs of a page given to extract_titles_from_text

TitleLenBelow == 100
TitleLenAbove == 10

\* the bullet character of line 242, one token
Bullet == "bullet"

\* str.isdigit()
IsDigit(text) == text # <<>> /\ \A i \in 1 .. Len(text) : IsDigitChar(text[i])

Tablo  == <<"t", "a", "b", "l", "o">>
Grafik == <<"g", "r", "a", "f", "i", "k">>

\* the condition of lines 238-245 with len(para) <= 100
IsTitleLenInclusive(para) ==
    /\ Len(para) <= TitleLenBelow
    /\ Len(para) > TitleLenAbove
    /\ IsUpperChar(para[1])
    /\ para[Len(para)] # "."
    /\ para[1] # Bullet
    /\ ~IsDigit(para)
    /\ ~Contains(Lower(para), Tablo)
    /\ ~Contains(Lower(para), Grafik)

\* the condition of lines 238-245
IsTitle(para) ==
    /\ Len(para) < TitleLenBelow
    /\ Len(para) > TitleLenAbove
    /\ IsUpperChar(para[1])
    /\ para[Len(para)] # "."
    /\ para[1] # Bullet
    /\ ~IsDigit(para)
    /\ ~Contains(Lower(para), Tablo)
    /\ ~Contains(Lower(para), Grafik)

\* f"Sayfa {page_num}"
DefaultTitle(page_num) == <<"S", "a", "y", "f", "a", " ">> \o Str(page_num)

\* titles[page_num] = ... of one iteration of the loop over the pages
PutTitle(title_map, page_num, title) ==
    [n \in DOMAIN title_map \cup {page_num} |-> IF n = page_num THEN title ELSE title_map[n]]

\* extract_titles_from_text from the i-th record of text_data on
RECURSIVE ExtractTitlesFrom(_, _, _)
ExtractTitlesFrom(data, i, title_map) ==
    IF i > Len(data) THEN title_map
    ELSE
        LET page_num   == data[i].sayfa
            paragraphs == data[i].paragraflar
            hits       == {j \in 1 .. Len(paragraphs) : IsTitle(paragraphs[j])}
        IN  ExtractTitlesFrom(data, i + 1,
                IF hits # {}
                THEN PutTitle(title_map, page_num,
                              paragraphs[CHOOSE j \in hits : \A k \in hits : j <= k])
                ELSE IF page_num \in DOMAIN title_map THEN title_map
                ELSE PutTitle(title_map, page_num, DefaultTitle(page_num)))

ExtractTitlesFromText(data) == ExtractTitlesFrom(data, 1, <<>>)

\* paragraphs of a page: titles, captions, sentences, short and long lines
TitleParagraphs ==
    {<<"R", "e", "v", "e", "n", "u", "e", " ", "2", "0", "2">>,
     <<"N", "e", "t", " ", "i", "n", "c", "o", "m", "e", " ", "Q">>,
     <<"T", "a", "b", "l", "o", " ", "1", " ", "o", "z", "e", "t", "i">>,
     <<"G", "e", "l", "i", "r", " ", "G", "R", "A", "F", "I", "K", " ", "2">>,
     <<"R", "e", "v", "e", "n", "u", "e", " ", "u", "p", ".">>,
     <<"S", "h", "o", "r", "t">>,
     <<"R", "e", "v", "e", "n", "u", "e", " ", "2", "0">>,
     <<"r", "e", "v", "e", "n", "u", "e", " ", "2", "0", "2">>,
     <<"1", "2", "3", "4", "5", "6", "7", "8", "9", "0", "1">>,
     <<Bullet>> \o <<"R", "e", "v", "e", "n", "u", "e", " ", "2", "0">>,
     [i \in 1 .. TitleLenBelow |-> IF i = 1 THEN "A" ELSE "a"],
     [i \in 1 .. TitleLenBelow - 1 |-> IF i = 1 THEN "B" ELSE "b"]}

\* the records extract_titles_from_text is given: one page, or two pages
TitleInputs ==
    {<<[sayfa |-> n, paragraflar |-> ps]>> :
        n \in {1, 2}, ps \in SeqsUpTo(TitleParagraphs, MaxTitleParagraphs)}
    \cup {<<[sayfa |-> 1, paragraflar |-> ps], [sayfa |-> 2, paragraflar |-> qs]>> :
        ps \in SeqsUpTo(TitleParagraphs, 1), qs \in SeqsUpTo(TitleParagraphs, 1)}

OthersOffTitle == QueryOff /\ ChunkOff /\ ChartOff /\ ImageOff /\ LateOff

InitTitle ==
    /\ text_data \in TitleInputs
    /\ titles = <<>>
    /\ tpc = "input"
    /\ StoreOff /\ ConsOff /\ ConfOff /\ OthersOffTitle

RunExtractTitles ==
    /\ tpc = "input"
    /\ titles' = ExtractTitlesFromText(text_data)
    /\ tpc' = "done"
    /\ UNCHANGED text_data
    /\ UNCHANGED <<lateVars, storeVars, consVars, confVars, queryVars, chunkVars, chartVars, imageVars>>

TitleNext == RunExtractTitles

SpecTitle == InitTitle /\ [][TitleNext]_vars

\* ============================== parallel_extraction / build_final_output
\* A document is the text of its pages, the pages of its tables, and whether
\* pdfplumber opens it, pdf2image (poppler) converts it and page.to_image works.
\* The Turkish field names of the output are written in ASCII.

\* the tasks parallel_extraction submits, in the order of the dict
TaskNames == <<"text_pdfplumber", "text_alternative", "tables", "images_pdf2image">>

\* extract_tables_pdfplumber: one record for every table of the document
ExtractTablesPdfplumber(document) ==
    IF ~document.pdfplumber_opens THEN <<>>
    ELSE [t \in 1 .. Len(document.tables) |->
             [sayfa |-> document.tables[t], tablo_id |-> 1,
              data |-> [rows |-> <<"c">>], kaynak |-> "pdfplumber"]]

\* the path a renderer gives the image of page n: every extractor writes into
\* the same output directory, whatever its document
PagePath(n, suffix) == <<"page_">> \o Str(n) \o <<suffix>>

\* the files on disk after a renderer saved the image of page n of the document
SavePage(files, document, n, suffix) ==
    [path \in DOMAIN files \cup {PagePath(n, suffix)} |->
        IF path = PagePath(n, suffix)
        THEN [image |-> document.page_images[n], hangs |-> FALSE]
        ELSE files[path]]

\* extract_images_pdf2image: every page at 300 dpi, [] when the conversion raises
ExtractImagesPdf2image(document) ==
    IF ~document.pdf2image_works THEN <<>>
    ELSE [n \in 1 .. Len(document.page_texts) |->
             [sayfa        |-> n,
              gorsel_path  |-> PagePath(n, "_hq.png"),
              cozunurluk   |-> "300dpi",
              kaynak       |-> "pdf2image"]]

\* extract_images_pdfplumber: every page at 150 dpi, [] when anything raises
ExtractImagesPdfplumber(document) ==
    IF ~document.pdfplumber_opens \/ ~document.to_image_works THEN <<>>
    ELSE [n \in 1 .. Len(document.page_texts) |->
             [sayfa        |-> n,
              gorsel_path  |-> PagePath(n, "_standard.png"),
              cozunurluk   |-> "150dpi",
              kaynak       |-> "pdfplumber"]]

\* what the task of that name returns
TaskResult(document, name) ==
    CASE name = "text_pdfplumber" ->
             IF document.pdfplumber_opens THEN ExtractTextPdfplumber(document.page_texts)
             ELSE <<>>
      [] name = "text_alternative" ->
             IF document.pdfplumber_opens
             THEN ExtractTextAlternative(document.page_texts, document.page_chars)
             ELSE <<>>
      [] name = "tables" -> ExtractTablesPdfplumber(document)
      [] name = "images_pdf2image" -> ExtractImagesPdf2image(document)

\* results[key] = value
PutResult(results, key, value) ==
    [k \in DOMAIN results \cup {key} |-> IF k = key THEN value ELSE results[k]]

\* results.get(key, [])
GetResult(results, key) == IF key \in DOMAIN results THEN results[key] ELSE <<>>

\* the items of a list that are of that page
OfPage(items, page_num) ==
    FlattenSeq([i \in 1 .. Len(items) |->
        IF items[i].sayfa = page_num THEN <<items[i]>> ELSE <<>>])

\* build_final_output
BuildFinalOutputOf(results) ==
    LET consensus == ConsensusTextExtraction(GetResult(results, "text_pdfplumber"),
                                             GetResult(results, "text_alternative"))
        title_map == ExtractTitlesFromText(consensus)
        images    == IF GetResult(results, "images_pdf2image") # <<>>
                     THEN GetResult(results, "images_pdf2image")
                     ELSE GetResult(results, "images_pdfplumber")
    IN  [p \in 1 .. Len(consensus) |->
            LET page_num    == consensus[p].sayfa
                page_tables == OfPage(GetResult(results, "tables"), page_num)
                page_images == OfPage(images, page_num)
            IN  [sayfa       |-> page_num,
                 baslik      |-> title_map[page_num],
                 paragraflar |-> consensus[p].paragraflar,
                 tablolar    |-> [t \in 1 .. Len(page_tables) |-> page_tables[t].data],
                 grafikler   |-> [g \in 1 .. Len(page_images) |->
                                     [baslik         |-> title_map[page_num],
                                      gorsel_path    |-> page_images[g].gorsel_path,
                                      cozunurluk     |-> page_images[g].cozunurluk,
                                      kaynak         |-> page_images[g].kaynak,
                                      cikarilan_veri |-> NoneStr]],
                 confidence  |-> consensus[p].confidence,
                 validation  |-> consensus[p].validation]]

\* the pages a document of the model may have: the text of the page, its
\* characters, and what the rendering of the page shows
PdfPages ==
    {[text |-> <<>>, chars |-> <<>>, image |-> BlankImage],
     [text |-> <<"a">>, chars |-> <<[text |-> "a", size |-> 10]>>, image |-> BarImage],
     [text |-> <<"b">>, chars |-> <<[text |-> "b"]>>, image |-> PieImage],
     [text  |-> <<"a", "\n", "b">>,
      chars |-> <<[text |-> "a", size |-> 8], [text |-> "b", size |-> 10]>>,
      image |-> TitledImage]}

\* the document of those pages
PdfOf(pages, tables, opens, converts, renders) ==
    [page_texts       |-> [i \in 1 .. Len(pages) |-> pages[i].text],
     page_chars       |-> [i \in 1 .. Len(pages) |-> pages[i].chars],
     page_images      |-> [i \in 1 .. Len(pages) |-> pages[i].image],
     tables           |-> tables,
     pdfplumber_opens |-> opens,
     pdf2image_works  |-> converts,
     to_image_works   |-> renders]

Pdfs ==
    {PdfOf(pages, tables, opens, converts, renders) :
        pages \in SeqsUpTo(PdfPages, MaxPages) \ {<<>>}, tables \in {<<>>, <<1>>},
        opens \in BOOLEAN, converts \in BOOLEAN, renders \in BOOLEAN}

\* the futures dict of parallel_extraction once the four tasks are submitted:
\* the pool has a thread for each of them
AllRunning == [name \in {TaskNames[i] : i \in 1 .. Len(TaskNames)} |-> "running"]

\* no task has been submitted
NoFutures == [name \in {} |-> "running"]

PdfPath == "a.pdf"

\* analyze_pdf_complete is called on one document: its extraction has
\* submitted the four tasks
InitImage ==
    /\ pdf_paths = <<PdfPath>>
    /\ pdf \in {<<document>> : document \in Pdfs}
    /\ extraction_futures = <<AllRunning>>
    /\ pages_saved = <<0>>
    /\ extraction_results = <<NoResults>>
    /\ render_log = << <<>> >>
    /\ final_pages = << <<>> >>
    /\ ipc = <<"tasks">>
    /\ artifact = <<NoArtifact>>
    /\ multi_results = NoResults
    /\ multi_collected = 0
    /\ mpc = "off"
    /\ image_files = NoFiles
    /\ performance_stats = NoStats
    /\ image_paths = << <<>> >>
    /\ futures = << <<>> >>
    /\ batch_results = <<NoResults>>
    /\ collected = <<0>>
    /\ bpc = <<"off">>
    /\ StoreOff /\ ConsOff /\ ConfOff
    /\ QueryOff /\ ChunkOff /\ ChartOff /\ TitleOff /\ SplitOff

\* the task the collecting loop of parallel_extraction waits for (lines 270-272)
NextTask(d) == TaskNames[Cardinality(DOMAIN extraction_results[d]) + 1]

\* the thread of extract_images_pdf2image saves the image of its next page
\* (lines 131-133)
SaveHqPage(d) ==
    /\ ipc[d] = "tasks"
    /\ extraction_futures[d]["images_pdf2image"] = "running"
    /\ pdf[d].pdf2image_works
    /\ pages_saved[d] < Len(pdf[d].page_images)
    /\ image_files' = SavePage(image_files, pdf[d], pages_saved[d] + 1, "_hq.png")
    /\ pages_saved' = [pages_saved EXCEPT ![d] = @ + 1]
    /\ UNCHANGED <<pdf_paths, pdf, extraction_futures, extraction_results, render_log,
                   final_pages, ipc, artifact, multiVars>>
    /\ UNCHANGED <<callVars, performance_stats, restVars>>

\* the thread of a task returns from it: the future is done.  The renderer
\* returns after its last page, or at once when the conversion raises.  A
\* thread that never finishes its task never takes this step.
TaskFinish(d, name) ==
    /\ ipc[d] = "tasks"
    /\ extraction_futures[d][name] = "running"
    /\ (name = "images_pdf2image" /\ pdf[d].pdf2image_works) =>
           pages_saved[d] = Len(pdf[d].page_images)
    /\ extraction_futures' = [extraction_futures EXCEPT ![d][name] = "done"]
    /\ render_log' = [render_log EXCEPT ![d] =
                         IF name = "images_pdf2image" THEN Append(@, "pdf2image") ELSE @]
    /\ UNCHANGED <<pdf_paths, pdf, pages_saved, extraction_results, final_pages, ipc,
                   artifact, multiVars>>
    /\ UNCHANGED <<batchVars, restVars>>

\* future.result(timeout=30) returns what the task returned (line 272)
CollectTask(d) ==
    /\ ipc[d] = "tasks"
    /\ Cardinality(DOMAIN extraction_results[d]) < Len(TaskNames)
    /\ extraction_futures[d][NextTask(d)] = "done"
    /\ extraction_results' = [extraction_results EXCEPT ![d] =
                                 PutResult(@, NextTask(d), TaskResult(pdf[d], NextTask(d)))]
    /\ UNCHANGED <<pdf_paths, pdf, extraction_futures, pages_saved, render_log, final_pages,
                   ipc, artifact, multiVars>>
    /\ UNCHANGED <<batchVars, restVars>>

\* future.result(timeout=30) raises on a task that still runs, which leaves []
\* as its result (lines 273-275).  The thread of the task goes on.
TaskTimeout(d) ==
    /\ ipc[d] = "tasks"
    /\ Cardinality(DOMAIN extraction_results[d]) < Len(TaskNames)
    /\ extraction_futures[d][NextTask(d)] = "running"
    /\ extraction_results' = [extraction_results EXCEPT ![d] = PutResult(@, NextTask(d), <<>>)]
    /\ UNCHANGED <<pdf_paths, pdf, extraction_futures, pages_saved, render_log, final_pages,
                   ipc, artifact, multiVars>>
    /\ UNCHANGED <<batchVars, restVars>>

\* the with block is left, which waits for every thread of the pool
\* (shutdown(wait=True)); then line 278: the fallback renderer is called when
\* the primary one gave nothing
Fallback(d) ==
    /\ ipc[d] = "tasks"
    /\ Cardinality(DOMAIN extraction_results[d]) = Len(TaskNames)
    /\ \A i \in 1 .. Len(TaskNames) : extraction_futures[d][TaskNames[i]] = "done"
    /\ IF extraction_results[d]["images_pdf2image"] = <<>>
       THEN /\ ipc' = [ipc EXCEPT ![d] = "fallback"]
            /\ pages_saved' = [pages_saved EXCEPT ![d] = 0]
       ELSE /\ ipc' = [ipc EXCEPT ![d] = "extracted"]
            /\ UNCHANGED pages_saved
    /\ UNCHANGED <<pdf_paths, pdf, extraction_futures, extraction_results, render_log,
                   final_pages, artifact, multiVars>>
    /\ UNCHANGED <<batchVars, restVars>>

\* extract_images_pdfplumber saves the image of its next page (lines 159-162)
SaveStandardPage(d) ==
    /\ ipc[d] = "fallback"
    /\ pdf[d].pdfplumber_opens /\ pdf[d].to_image_works
    /\ pages_saved[d] < Len(pdf[d].page_images)
    /\ image_files' = SavePage(image_files, pdf[d], pages_saved[d] + 1, "_standard.png")
    /\ pages_saved' = [pages_saved EXCEPT ![d] = @ + 1]
    /\ UNCHANGED <<pdf_paths, pdf, extraction_futures, extraction_results, render_log,
                   final_pages, ipc, artifact, multiVars>>
    /\ UNCHANGED <<callVars, performance_stats, restVars>>

\* extract_images_pdfplumber returns, after its last page or when it raised,
\* and parallel_extraction returns (lines 279-282)
FallbackReturn(d) ==
    /\ ipc[d] = "fallback"
    /\ (pdf[d].pdfplumber_opens /\ pdf[d].to_image_works) =>
           pages_saved[d] = Len(pdf[d].page_images)
    /\ extraction_results' = [extraction_results EXCEPT ![d] =
                                 PutResult(@, "images_pdfplumber",
                                           ExtractImagesPdfplumber(pdf[d]))]
    /\ render_log' = [render_log EXCEPT ![d] = Append(@, "pdfplumber")]
    /\ ipc' = [ipc EXCEPT ![d] = "extracted"]
    /\ UNCHANGED <<pdf_paths, pdf, extraction_futures, pages_saved, final_pages,
                   artifact, multiVars>>
    /\ UNCHANGED <<batchVars, restVars>>

BuildFinalOutput(d) ==
    /\ ipc[d] = "extracted"
    /\ final_pages' = [final_pages EXCEPT ![d] = BuildFinalOutputOf(extraction_results[d])]
    /\ ipc' = [ipc EXCEPT ![d] = "done"]
    /\ UNCHANGED <<pdf_paths, pdf, extraction_futures, pages_saved, extraction_results,
                   render_log, artifact, multiVars>>
    /\ UNCHANGED <<batchVars, restVars>>

\* ------------------------------ IntegratedAnalyzer and add_pdf_content
\* run_hybrid_extraction: the output data built from the final pages
RunHybridExtraction(pdf_path, pages) ==
    [pdf_dosyasi |-> pdf_path, sayfa_sayisi |-> Len(pages), sayfalar |-> pages]

\* the image paths _analyze_extracted_charts collects, in page order
ImagePathsOf(pages) ==
    FlattenSeq([p \in 1 .. Len(pages) |->
        FlattenSeq([g \in 1 .. Len(pages[p].grafikler) |->
            IF "gorsel_path" \in DOMAIN pages[p].grafikler[g]
            THEN <<pages[p].grafikler[g].gorsel_path>> ELSE <<>>])])

\* chart_types of lines 154-171: how many charts of each type
ChartTypeCounts(charts) ==
    [type \in {charts[c].chart_type : c \in 1 .. Len(charts)} |->
        Cardinality({c \in 1 .. Len(charts) : charts[c].chart_type = type})]

\* _analyze_extracted_charts, given what analyze_batch returned for the image
\* paths (not called when there is no path): one chart for every path whose
\* result is a ChartData, in the order the paths entered the dict
AnalyzeExtractedCharts(pdf_data, chart_results) ==
    LET paths == ImagePathsOf(pdf_data.sayfalar)
        charts == FlattenSeq([i \in 1 .. Len(paths) |->
                      IF /\ \A j \in 1 .. i - 1 : paths[j] # paths[i]
                         /\ chart_results[paths[i]] # NoChart
                      THEN <<[image_path     |-> paths[i],
                              chart_type     |-> chart_results[paths[i]].chart_type,
                              title          |-> chart_results[paths[i]].title,
                              x_axis_label   |-> chart_results[paths[i]].x_axis_label,
                              y_axis_label   |-> chart_results[paths[i]].y_axis_label,
                              data_points    |-> chart_results[paths[i]].data_points,
                              confidence     |-> chart_results[paths[i]].confidence,
                              extracted_text |-> chart_results[paths[i]].extracted_text]>>
                      ELSE <<>>])
    IN  IF paths = <<>>
        THEN [charts  |-> <<>>,
              summary |-> [total_charts |-> 0, chart_types |-> ChartTypeCounts(<<>>)]]
        ELSE [charts  |-> charts,
              summary |-> [total_charts          |-> Len(charts),
                           chart_types           |-> ChartTypeCounts(charts),
                           analyzed_images       |-> Len(paths),
                           successful_detections |-> Len(charts)]]

\* image_to_page of _associate_charts_with_pages, then lines 243-246: the last
\* page showing that image, None for a path that no page shows
ImageToPage(pages, path) ==
    LET showing == {p \in 1 .. Len(pages) :
                       \E g \in 1 .. Len(pages[p].grafikler) :
                           /\ "gorsel_path" \in DOMAIN pages[p].grafikler[g]
                           /\ pages[p].grafikler[g].gorsel_path = path}
    IN  IF showing = {} THEN NonePage
        ELSE CHOOSE p \in showing : \A q \in showing : q <= p

\* the sum of the lengths of a field over the pages
RECURSIVE TotalOf(_, _)
TotalOf(pages, field) ==
    IF pages = <<>> THEN 0 ELSE Len(Head(pages)[field]) + TotalOf(Tail(pages), field)

\* _integrate_results with _associate_charts_with_pages: the artifact has the
\* pages (their tables inside them) under pdf_content, and no 'tables' key
IntegrateResults(pdf_data, chart_results) ==
    LET pages  == pdf_data.sayfalar
        charts == [c \in 1 .. Len(chart_results.charts) |->
                      chart_results.charts[c] @@
                          ("source_page" :>
                              ImageToPage(pages, chart_results.charts[c].image_path))]
        ChartsOfPage(p) == FlattenSeq([c \in 1 .. Len(charts) |->
                               IF charts[c].source_page = p THEN <<charts[c]>> ELSE <<>>])
    IN  [document_info  |-> [filename |-> pdf_data.pdf_dosyasi,
                             total_pages |-> pdf_data.sayfa_sayisi],
         pdf_content    |->
             [pages   |-> [p \in 1 .. Len(pages) |->
                             pages[p] @@
                                 ("chart_summary" :>
                                     [chart_count |-> Len(ChartsOfPage(p)),
                                      chart_types |-> [c \in 1 .. Len(ChartsOfPage(p)) |->
                                                          ChartsOfPage(p)[c].chart_type]])],
              summary |-> [total_pages       |-> pdf_data.sayfa_sayisi,
                           total_text_blocks |-> TotalOf(pages, "paragraflar"),
                           total_tables      |-> TotalOf(pages, "tablolar"),
                           total_images      |-> TotalOf(pages, "grafikler")]],
         chart_analysis |-> [charts |-> charts, summary |-> chart_results.summary]]

\* analyze_pdf_complete after the extraction, up to the call of analyze_batch
\* (lines 95 and 131-146).  Without an image path there is no batch and the
\* artifact is integrated at once.
AnalyzePdfComplete(d) ==
    /\ ipc[d] = "done"
    /\ IF ImagePathsOf(final_pages[d]) = <<>>
       THEN /\ artifact' = [artifact EXCEPT ![d] =
                               IntegrateResults(
                                   RunHybridExtraction(pdf_paths[d], final_pages[d]),
                                   AnalyzeExtractedCharts(
                                       RunHybridExtraction(pdf_paths[d], final_pages[d]),
                                       NoResults))]
            /\ ipc' = [ipc EXCEPT ![d] = "analysed"]
            /\ UNCHANGED <<image_paths, bpc>>
       ELSE /\ image_paths' = [image_paths EXCEPT ![d] = ImagePathsOf(final_pages[d])]
            /\ bpc' = [bpc EXCEPT ![d] = "input"]
            /\ ipc' = [ipc EXCEPT ![d] = "charts"]
            /\ UNCHANGED artifact
    /\ UNCHANGED <<pdf_paths, pdf, extraction_futures, pages_saved, extraction_results,
                   render_log, final_pages, multiVars>>
    /\ UNCHANGED <<image_files, futures, performance_stats, batch_results, collected>>
    /\ UNCHANGED restVars

\* analyze_batch has returned: the charts are collected from its results
\* (lines 148-171) and integrated with the pages (_integrate_results)
IntegrateCharts(d) ==
    /\ ipc[d] = "charts"
    /\ bpc[d] = "returned"
    /\ artifact' = [artifact EXCEPT ![d] =
                       IntegrateResults(
                           RunHybridExtraction(pdf_paths[d], final_pages[d]),
                           AnalyzeExtractedCharts(
                               RunHybridExtraction(pdf_paths[d], final_pages[d]),
                               batch_results[d]))]
    /\ ipc' = [ipc EXCEPT ![d] = "analysed"]
    /\ UNCHANGED <<pdf_paths, pdf, extraction_futures, pages_saved, extraction_results,
                   render_log, final_pages, multiVars>>
    /\ UNCHANGED <<batchVars, restVars>>

\* add_pdf_content(artifact) on the store, run to its end
AddArtifact(d) ==
    /\ ipc[d] = "analysed"
    /\ LET r == AddChunks(index, chunks, chunk_metadata, ChunksToAdd(artifact[d]))
       IN  /\ index' = r.index
           /\ chunks' = r.chunks
           /\ chunk_metadata' = r.chunk_metadata
    /\ ipc' = [ipc EXCEPT ![d] = "added"]
    /\ UNCHANGED <<pdf_paths, pdf, extraction_futures, pages_saved, extraction_results,
                   render_log, final_pages, artifact, multiVars>>
    /\ UNCHANGED <<model_name, disk, pc, batch, stored, base, out, search_call, caller, saved>>
    /\ UNCHANGED <<lateVars, consVars, confVars, queryVars, chunkVars, chartVars, titleVars>>

\* ========================================================== analyze_batch
MaxBatch == 2    \* image paths given to analyze_batch

\* ThreadPoolExecutor(max_workers=4)
MaxWorkers == 4

\* The paths of a batch.  No file is at missing.png; cv2.imread raises on
\* bad.png; the analysis of slow.png never finishes (hangs).
ImagePaths == {<<"bar.png">>, <<"pie.png">>, <<"blank.png">>, <<"missing.png">>,
               <<"bad.png">>, <<"slow.png">>}

BatchFiles ==
    [path \in ImagePaths \ {<<"missing.png">>} |->
        [image |-> CASE path = <<"bar.png">>   -> BarImage
                     [] path = <<"pie.png">>   -> PieImage
                     [] path = <<"blank.png">> -> BlankImage
                     [] path = <<"bad.png">>   -> RaisingImage
                     [] OTHER                  -> BarImage,
         hangs |-> path = <<"slow.png">>]]

\* the file analyze_image opens at that path (cv2.imread gives None without one)
FileOf(path) ==
    IF path \in DOMAIN image_files THEN image_files[path]
    ELSE [image |-> NoImage, hangs |-> FALSE]

\* an int that holds no value
NoLocal == -1

\* executor.submit(self.analyze_image, path)
Submit(path) ==
    [path |-> path, state |-> "queued", todo |-> <<>>, local |-> NoLocal, result |-> NoChart]

\* results[path] = result, without an entry for a None
RecordResultSkipsNone(results, path, result) ==
    IF result = NoChart THEN results ELSE PutResult(results, path, result)

\* results[path] = result
RecordResult(results, path, result) == PutResult(results, path, result)

\* analyze_batch is called on one list of paths
InitBatch ==
    /\ image_files = BatchFiles
    /\ image_paths \in {<<paths>> : paths \in SeqsUpTo(ImagePaths, MaxBatch)}
    /\ futures = << <<>> >>
    /\ performance_stats = NoStats
    /\ batch_results = <<NoResults>>
    /\ collected = <<0>>
    /\ bpc = <<"input">>
    /\ StoreOff /\ ConsOff /\ ConfOff
    /\ QueryOff /\ ChunkOff /\ ChartOff /\ TitleOff /\ ImageOff /\ SplitOff

\* analyze_batch, lines 475-484: every path is submitted to the pool
AnalyzeBatch(d) ==
    /\ bpc[d] = "input"
    /\ futures' = [futures EXCEPT ![d] =
                      [i \in 1 .. Len(image_paths[d]) |-> Submit(image_paths[d][i])]]
    /\ bpc' = [bpc EXCEPT ![d] = "collecting"]
    /\ UNCHANGED <<image_files, image_paths, performance_stats, batch_results, collected>>
    /\ UNCHANGED <<oldVars, splitVars>>

Busy(d, i) == futures[d][i].state \in {"running", "counting"}

\* a free worker of the pool takes the task
WorkerStart(d, i) ==
    /\ futures[d][i].state = "queued"
    /\ Cardinality({j \in 1 .. Len(futures[d]) : Busy(d, j)}) < MaxWorkers
    /\ futures' = [futures EXCEPT ![d][i].state = "running"]
    /\ UNCHANGED <<image_files, image_paths, performance_stats, batch_results, collected, bpc>>
    /\ UNCHANGED <<oldVars, splitVars>>

\* analyze_image up to its first counter update (never, on a file that hangs):
\* the file is read as it is on disk now
WorkerAnalyze(d, i) ==
    /\ futures[d][i].state = "running"
    /\ ~FileOf(futures[d][i].path).hangs
    /\ futures' = [futures EXCEPT
           ![d][i].state  = "counting",
           ![d][i].todo   = AnalyzeImageOutcome(FileOf(futures[d][i].path).image).counters,
           ![d][i].result = AnalyzeImageOutcome(FileOf(futures[d][i].path).image).result]
    /\ UNCHANGED <<image_files, image_paths, performance_stats, batch_results, collected, bpc>>
    /\ UNCHANGED <<oldVars, splitVars>>

\* self.performance_stats[...][...] += 1, the read of the counter
WorkerRead(d, i) ==
    /\ futures[d][i].state = "counting"
    /\ futures[d][i].todo # <<>>
    /\ futures[d][i].local = NoLocal
    /\ futures' = [futures EXCEPT ![d][i].local =
           performance_stats[Head(futures[d][i].todo)[1]][Head(futures[d][i].todo)[2]]]
    /\ UNCHANGED <<image_files, image_paths, performance_stats, batch_results, collected, bpc>>
    /\ UNCHANGED <<oldVars, splitVars>>

\* self.performance_stats[...][...] += 1, the write of the sum
WorkerWrite(d, i) ==
    /\ futures[d][i].state = "counting"
    /\ futures[d][i].local # NoLocal
    /\ performance_stats' =
           [performance_stats EXCEPT
               ![Head(futures[d][i].todo)[1]][Head(futures[d][i].todo)[2]] =
                   futures[d][i].local + 1]
    /\ futures' = [futures EXCEPT ![d][i].todo = Tail(@), ![d][i].local = NoLocal]
    /\ UNCHANGED <<image_files, image_paths, batch_results, collected, bpc>>
    /\ UNCHANGED <<oldVars, splitVars>>

\* analyze_image returns and the future is set
WorkerReturn(d, i) ==
    /\ futures[d][i].state = "counting"
    /\ futures[d][i].todo = <<>>
    /\ futures' = [futures EXCEPT ![d][i].state = "done"]
    /\ UNCHANGED <<image_files, image_paths, performance_stats, batch_results, collected, bpc>>
    /\ UNCHANGED <<oldVars, splitVars>>

\* lines 487-494: future.result() blocks until the task is done (it has no timeout)
Collect(d) ==
    /\ bpc[d] = "collecting"
    /\ collected[d] < Len(futures[d])
    /\ futures[d][collected[d] + 1].state = "done"
    /\ batch_results' = [batch_results EXCEPT ![d] =
                            RecordResult(@, futures[d][collected[d] + 1].path,
                                         futures[d][collected[d] + 1].result)]
    /\ collected' = [collected EXCEPT ![d] = @ + 1]
    /\ UNCHANGED <<image_files, image_paths, futures, performance_stats, bpc>>
    /\ UNCHANGED <<oldVars, splitVars>>

\* the with block is left (shutdown(wait=True)) and analyze_batch returns
BatchReturn(d) ==
    /\ bpc[d] = "collecting"
    /\ collected[d] = Len(futures[d])
    /\ \A i \in 1 .. Len(futures[d]) : futures[d][i].state = "done"
    /\ bpc' = [bpc EXCEPT ![d] = "returned"]
    /\ UNCHANGED <<image_files, image_paths, futures, performance_stats, batch_results, collected>>
    /\ UNCHANGED <<oldVars, splitVars>>

\* the calls of analyze_batch under way
Calls == DOMAIN bpc

BatchNext ==
    \/ \E d \in Calls : AnalyzeBatch(d)
    \/ \E d \in Calls : \E i \in 1 .. Len(futures[d]) : WorkerStart(d, i)
    \/ \E d \in Calls : \E i \in 1 .. Len(futures[d]) : WorkerAnalyze(d, i)
    \/ \E d \in Calls : \E i \in 1 .. Len(futures[d]) : WorkerRead(d, i)
    \/ \E d \in Calls : \E i \in 1 .. Len(futures[d]) : WorkerWrite(d, i)
    \/ \E d \in Calls : \E i \in 1 .. Len(futures[d]) : WorkerReturn(d, i)
    \/ \E d \in Calls : Collect(d)
    \/ \E d \in Calls : BatchReturn(d)

SpecBatch == InitBatch /\ [][BatchNext]_vars

\* ------------------- the pipeline: extraction, chart analysis, insertion
\* the documents under analysis
Docs == DOMAIN pdf_paths

\* run_hybrid_extraction (parallel_extraction, then build_final_output)
ExtractionNext ==
    \/ \E d \in Docs : SaveHqPage(d)
    \/ \E d \in Docs : \E i \in 1 .. Len(TaskNames) : TaskFinish(d, TaskNames[i])
    \/ \E d \in Docs : CollectTask(d)
    \/ \E d \in Docs : TaskTimeout(d)
    \/ \E d \in Docs : Fallback(d)
    \/ \E d \in Docs : SaveStandardPage(d)
    \/ \E d \in Docs : FallbackReturn(d)
    \/ \E d \in Docs : BuildFinalOutput(d)

\* analyze_pdf_complete runs analyze_batch on the page images, so the steps of
\* the batch and of its workers are steps of the analysis
ImageNext ==
    \/ \E d \in Docs : SaveHqPage(d)
    \/ \E d \in Docs : \E i \in 1 .. Len(TaskNames) : TaskFinish(d, TaskNames[i])
    \/ \E d \in Docs : CollectTask(d)
    \/ \E d \in Docs : TaskTimeout(d)
    \/ \E d \in Docs : Fallback(d)
    \/ \E d \in Docs : SaveStandardPage(d)
    \/ \E d \in Docs : FallbackReturn(d)
    \/ \E d \in Docs : BuildFinalOutput(d)
    \/ \E d \in Docs : AnalyzePdfComplete(d)
    \/ \E d \in Docs : AnalyzeBatch(d)
    \/ \E d \in Docs : \E i \in 1 .. Len(futures[d]) : WorkerStart(d, i)
    \/ \E d \in Docs : \E i \in 1 .. Len(futures[d]) : WorkerAnalyze(d, i)
    \/ \E d \in Docs : \E i \in 1 .. Len(futures[d]) : WorkerRead(d, i)
    \/ \E d \in Docs : \E i \in 1 .. Len(futures[d]) : WorkerWrite(d, i)
    \/ \E d \in Docs : \E i \in 1 .. Len(futures[d]) : WorkerReturn(d, i)
    \/ \E d \in Docs : Collect(d)
    \/ \E d \in Docs : BatchReturn(d)
    \/ \E d \in Docs : IntegrateCharts(d)
    \/ \E d \in Docs : AddArtifact(d)

SpecImage == InitImage /\ [][ImageNext]_vars

\* the steps of the thread that called run_hybrid_extraction
CallerNext ==
    \/ \E d \in Docs : CollectTask(d)
    \/ \E d \in Docs : TaskTimeout(d)
    \/ \E d \in Docs : Fallback(d)
    \/ \E d \in Docs : SaveStandardPage(d)
    \/ \E d \in Docs : FallbackReturn(d)
    \/ \E d \in Docs : BuildFinalOutput(d)

\* the calling thread is scheduled by the system: a step of it that stays
\* possible is taken (a wait of 30 seconds lapses).  The thread of a task may
\* stay inside its task for ever.
SpecImageFair == InitImage /\ [][ExtractionNext]_vars /\ WF_vars(CallerNext)

\* ================================================== analyze_multiple_pdfs
MaxPdfs == 2    \* paths given to analyze_multiple_pdfs

\* ThreadPoolExecutor(max_workers=2)
MaxPdfWorkers == 2

\* the documents on disk: a page with a bar chart and a page with a titled
\* bar chart; both renderers work on both
PdfFiles ==
    [path \in {"a.pdf", "b.pdf"} |->
        IF path = "a.pdf"
        THEN PdfOf(<<[text |-> <<"a">>, chars |-> <<[text |-> "a", size |-> 10]>>,
                      image |-> BarImage]>>, <<>>, TRUE, TRUE, TRUE)
        ELSE PdfOf(<<[text  |-> <<"a", "\n", "b">>,
                      chars |-> <<[text |-> "a", size |-> 8], [text |-> "b", size |-> 10]>>,
                      image |-> TitledImage]>>, <<>>, TRUE, TRUE, TRUE)]

\* analyze_multiple_pdfs is called on a list of paths, on an analyzer as
\* __init__ left it
InitMulti ==
    /\ pdf_paths \in SeqsUpTo(DOMAIN PdfFiles, MaxPdfs) \ {<<>>}
    /\ pdf = [d \in DOMAIN pdf_paths |-> PdfFiles[pdf_paths[d]]]
    /\ extraction_futures = [d \in DOMAIN pdf_paths |-> NoFutures]
    /\ pages_saved = [d \in DOMAIN pdf_paths |-> 0]
    /\ extraction_results = [d \in DOMAIN pdf_paths |-> NoResults]
    /\ render_log = [d \in DOMAIN pdf_paths |-> <<>>]
    /\ final_pages = [d \in DOMAIN pdf_paths |-> <<>>]
    /\ ipc = [d \in DOMAIN pdf_paths |-> "off"]
    /\ artifact = [d \in DOMAIN pdf_paths |-> NoArtifact]
    /\ multi_results = NoResults
    /\ multi_collected = 0
    /\ mpc = "input"
    /\ image_files = NoFiles
    /\ performance_stats = NoStats
    /\ image_paths = [d \in DOMAIN pdf_paths |-> <<>>]
    /\ futures = [d \in DOMAIN pdf_paths |-> <<>>]
    /\ batch_results = [d \in DOMAIN pdf_paths |-> NoResults]
    /\ collected = [d \in DOMAIN pdf_paths |-> 0]
    /\ bpc = [d \in DOMAIN pdf_paths |-> "off"]
    /\ StoreOff /\ ConsOff /\ ConfOff
    /\ QueryOff /\ ChunkOff /\ ChartOff /\ TitleOff /\ SplitOff

\* lines 328-333: analyze_pdf_complete is submitted for every path
AnalyzeMultiplePdfs ==
    /\ mpc = "input"
    /\ ipc' = [d \in DOMAIN ipc |-> "queued"]
    /\ mpc' = "collecting"
    /\ UNCHANGED <<pdf_paths, pdf, extraction_futures, pages_saved, extraction_results,
                   render_log, final_pages, artifact, multi_results,
                   multi_collected>>
    /\ UNCHANGED <<batchVars, restVars>>

\* a thread of the pool is inside analyze_pdf_complete
Analysing(d) == ipc[d] \in {"tasks", "fallback", "extracted", "done", "charts"}

\* a free thread of the pool takes the first waiting call of
\* analyze_pdf_complete, whose extractor submits its four tasks
PdfWorkerStart(d) ==
    /\ mpc = "collecting"
    /\ ipc[d] = "queued"
    /\ \A e \in 1 .. d - 1 : ipc[e] # "queued"
    /\ Cardinality({e \in Docs : Analysing(e)}) < MaxPdfWorkers
    /\ ipc' = [ipc EXCEPT ![d] = "tasks"]
    /\ extraction_futures' = [extraction_futures EXCEPT ![d] = AllRunning]
    /\ UNCHANGED <<pdf_paths, pdf, pages_saved, extraction_results, render_log, final_pages,
                   artifact, multiVars>>
    /\ UNCHANGED <<batchVars, restVars>>

\* lines 336-340: future.result() blocks until analyze_pdf_complete returned
\* (it has no timeout); the result is stored under the path
CollectPdf ==
    /\ mpc = "collecting"
    /\ multi_collected < Len(pdf_paths)
    /\ ipc[multi_collected + 1] = "analysed"
    /\ multi_results' = PutResult(multi_results, pdf_paths[multi_collected + 1],
                                  artifact[multi_collected + 1])
    /\ multi_collected' = multi_collected + 1
    /\ UNCHANGED <<pdf_paths, pdf, extraction_futures, pages_saved, extraction_results,
                   render_log, final_pages, ipc, artifact, mpc>>
    /\ UNCHANGED <<batchVars, restVars>>

\* the with block is left and analyze_multiple_pdfs returns
MultiReturn ==
    /\ mpc = "collecting"
    /\ multi_collected = Len(pdf_paths)
    /\ mpc' = "returned"
    /\ UNCHANGED <<pdf_paths, pdf, extraction_futures, pages_saved, extraction_results,
                   render_log, final_pages, ipc, artifact, multi_results,
                   multi_collected>>
    /\ UNCHANGED <<batchVars, restVars>>

MultiNext ==
    \/ AnalyzeMultiplePdfs
    \/ \E d \in Docs : PdfWorkerStart(d)
    \/ \E d \in Docs : SaveHqPage(d)
    \/ \E d \in Docs : \E i \in 1 .. Len(TaskNames) : TaskFinish(d, TaskNames[i])
    \/ \E d \in Docs : CollectTask(d)
    \/ \E d \in Docs : TaskTimeout(d)
    \/ \E d \in Docs : Fallback(d)
    \/ \E d \in Docs : SaveStandardPage(d)
    \/ \E d \in Docs : FallbackReturn(d)
    \/ \E d \in Docs : BuildFinalOutput(d)
    \/ \E d \in Docs : AnalyzePdfComplete(d)
    \/ \E d \in Docs : AnalyzeBatch(d)
    \/ \E d \in Docs : \E i \in 1 .. Len(futures[d]) : WorkerStart(d, i)
    \/ \E d \in Docs : \E i \in 1 .. Len(futures[d]) : WorkerAnalyze(d, i)
    \/ \E d \in Docs : \E i \in 1 .. Len(futures[d]) : WorkerRead(d, i)
    \/ \E d \in Docs : \E i \in 1 .. Len(futures[d]) : WorkerWrite(d, i)
    \/ \E d \in Docs : \E i \in 1 .. Len(futures[d]) : WorkerReturn(d, i)
    \/ \E d \in Docs : Collect(d)
    \/ \E d \in Docs : BatchReturn(d)
    \/ \E d \in Docs : IntegrateCharts(d)
    \/ CollectPdf
    \/ MultiReturn

SpecMulti == InitMulti /\ [][MultiNext]_vars

\* ============================================================ _split_text
\* text.split(): the maximal runs of characters that are not whitespace
RECURSIVE SplitWordsFrom(_, _, _)
SplitWordsFrom(text, word, words) ==
    IF text = <<>> THEN (IF word = <<>> THEN words ELSE Append(words, word))
    ELSE IF Head(text) \in Whitespace
         THEN SplitWordsFrom(Tail(text), <<>>,
                             IF word = <<>> THEN words ELSE Append(words, word))
         ELSE SplitWordsFrom(Tail(text), Append(word, Head(text)), words)

SplitWords(text) == SplitWordsFrom(text, <<>>, <<>>)

\* the loop of lines 200-211 and the flush of lines 213-214
RECURSIVE SplitLoop(_, _, _, _, _)
SplitLoop(words, max_size, current_chunk, current_size, acc) ==
    IF words = <<>>
    THEN (IF current_chunk # <<>> THEN Append(acc, Join(current_chunk, <<" ">>)) ELSE acc)
    ELSE
        LET word == Head(words)
        IN  IF current_size + Len(word) + 1 > max_size
            THEN IF current_chunk # <<>>
                 THEN SplitLoop(Tail(words), max_size, <<word>>, Len(word),
                                Append(acc, Join(current_chunk, <<" ">>)))
                 ELSE SplitLoop(Tail(words), max_size, current_chunk, current_size,
                                Append(acc, Slice(word, 0, max_size)))
            ELSE SplitLoop(Tail(words), max_size, Append(current_chunk, word),
                           current_size + Len(word) + 1, acc)

\* _split_text
SplitText(text, max_size) ==
    IF Len(text) <= max_size THEN <<text>>
    ELSE SplitLoop(SplitWords(text), max_size, <<>>, 0, <<>>)

SplitAlphabet == {"a", "b", " "}

OthersOffSplit == QueryOff /\ ChunkOff /\ ChartOff /\ TitleOff /\ ImageOff /\ BatchOff

InitSplit ==
    /\ sp_text \in SeqsUpTo(SplitAlphabet, MaxTextLen)
    /\ sp_max_size \in 1 .. MaxTextLen
    /\ sp_chunks = <<>>
    /\ spc = "input"
    /\ StoreOff /\ ConsOff /\ ConfOff /\ OthersOffSplit

RunSplitText ==
    /\ spc = "input"
    /\ sp_chunks' = SplitText(sp_text, sp_max_size)
    /\ spc' = "done"
    /\ UNCHANGED <<sp_text, sp_max_size>>
    /\ UNCHANGED <<oldVars, batchVars>>

SplitNext == RunSplitText

SpecSplit == InitSplit /\ [][SplitNext]_vars

\* =================================================================== claims
\* ------------------------------------------------------------------------
\* C1: between calls, the index, the chunk list and the metadata map have the
\* same number of entries: index.ntotal == len(chunks) == len(chunk_metadata),
\* also after a batch holding two chunks with the same (source, page, text[:100]).
C1_SizesAgree ==
    pc = "idle" =>
        /\ Len(index) = Len(chunks)
        /\ Len(chunks) = Cardinality(DOMAIN chunk_metadata)

\* ------------------------------------------------------------------------
\* C2: a search never observes a partially inserted batch: in every state (a
\* search may read any of them) the batch of the running _add_chunks is wholly
\* in the index and in the chunk list, or in neither.
C2_BatchAllOrNothing ==
    pc = "storing" =>
        LET in_index  == Len(index) - base
            in_chunks == Len(chunks) - base
        IN  \/ in_index = 0 /\ in_chunks = 0
            \/ in_index = Len(batch) /\ in_chunks = Len(batch)

\* ------------------------------------------------------------------------
\* C8: the results of a search are in descending order of score, the rank of
\* each result is its 0-based position in the returned list, and with a filter
\* every returned chunk has the filter's type.  (Stated for the searches that
\* run while no insertion is in progress.)
C8_RanksArePositions ==
    (out.op = "search" /\ pc = "idle") =>
        LET r == out.results
        IN  /\ \A i \in 1 .. Len(r) : r[i].rank = i - 1
            /\ \A i \in 1 .. Len(r) - 1 : r[i].score >= r[i + 1].score
            /\ out.filter_type # NoFilter =>
                   \A i \in 1 .. Len(r) : r[i].chunk.chunk_type = out.filter_type

\* ------------------------------------------------------------------------
\* C10: insertion is idempotent: adding a chunk whose source, page and text are
\* those of an indexed chunk leaves no duplicate entry, so between calls the
\* chunk list and the index hold one entry per chunk id.
C10_InsertIdempotent ==
    pc = "idle" =>
        LET ids == {chunks[i].id : i \in 1 .. Len(chunks)}
        IN  /\ Len(chunks) = Cardinality(ids)
            /\ Len(index) = Cardinality(ids)

\* ------------------------------------------------------------------------
\* C6: load_vector_store returns True exactly when config.json, the index, the
\* chunk list and the metadata map are all present and the model recorded in
\* the config is the store's model; it returns False in every other case.
C6_LoadReturnsFalseOnMissing ==
    out.op = "load" =>
        (out.ret <=> /\ \A a \in Artifacts : disk[a].exists
                     /\ disk.config.content.model_name = model_name)

\* ------------------------------------------------------------------------
\* C7: save_vector_store, then load_vector_store into a new store of the same
\* model on the same directory: the load succeeds and the loaded store has the
\* chunk count, the chunk ids in order, the metadata keys and, for every query,
\* k and filter, the search results of the saved store.
ChunkIds(chunk_list) == [i \in 1 .. Len(chunk_list) |-> chunk_list[i].id]

C7_SaveLoadRoundTrip ==
    (out.op = "load" /\ saved.valid /\ saved.model_name = model_name) =>
        /\ out.ret
        /\ Len(chunks) = Len(saved.chunks)
        /\ ChunkIds(chunks) = ChunkIds(saved.chunks)
        /\ DOMAIN chunk_metadata = DOMAIN saved.chunk_metadata
        /\ \A q \in Queries, k \in 1 .. MaxK, f \in FilterTypes :
               SearchStore(index, chunks, q, k, f)
                   = SearchStore(saved.index, saved.chunks, q, k, f)

\* a populated store was saved and loaded back by a new process
C7_Witness ==
    /\ out.op = "load" /\ saved.valid /\ saved.model_name = model_name
    /\ Len(chunks) >= 2
    /\ \E i, j \in 1 .. Len(chunks) : chunks[i].chunk_type # chunks[j].chunk_type

\* ------------------------------------------------------------------------
\* C3: on a page for which both strategies return non-empty text the consensus
\* keeps the longer text, keeps the pdfplumber record when the two texts have
\* the same length, and tags the page confidence=high, validation=both_sources.
BothHaveText(i) ==
    /\ i <= Len(texts_pdfplumber) /\ texts_pdfplumber[i].metin # <<>>
    /\ i <= Len(texts_alternative) /\ texts_alternative[i].metin # <<>>

PagesGiven == 1 .. Max(Len(texts_pdfplumber), Len(texts_alternative))

C3_LongerTextTiePrimary ==
    cpc = "done" =>
        \A i \in PagesGiven : BothHaveText(i) =>
            /\ i <= Len(consensus_texts)
            /\ LET c == consensus_texts[i]
                   p == texts_pdfplumber[i]
                   a == texts_alternative[i]
               IN  /\ c.confidence = "high"
                   /\ c.validation = "both_sources"
                   /\ Len(p.metin) >= Len(a.metin) =>
                          c.metin = p.metin /\ c.kaynak = "pdfplumber"
                   /\ Len(p.metin) < Len(a.metin) =>
                          c.metin = a.metin /\ c.kaynak = "pdfplumber_alternative"

\* ------------------------------------------------------------------------
\* C4: on a page for which exactly one strategy returns non-empty text (the
\* other an empty string or no record) the consensus record carries that text
\* and is tagged confidence=medium with the validation naming that strategy.
HasText(list, i) == i <= Len(list) /\ list[i].metin # <<>>

C4_SingleSourceIsMedium ==
    cpc = "done" =>
        \A i \in PagesGiven :
            /\ (HasText(texts_pdfplumber, i) /\ ~HasText(texts_alternative, i)) =>
                   /\ i <= Len(consensus_texts)
                   /\ consensus_texts[i].metin = texts_pdfplumber[i].metin
                   /\ consensus_texts[i].confidence = "medium"
                   /\ consensus_texts[i].validation = "pdfplumber_only"
            /\ (HasText(texts_alternative, i) /\ ~HasText(texts_pdfplumber, i)) =>
                   /\ i <= Len(consensus_texts)
                   /\ consensus_texts[i].metin = texts_alternative[i].metin
                   /\ consensus_texts[i].confidence = "medium"
                   /\ consensus_texts[i].validation = "alternative_only"

\* ------------------------------------------------------------------------
\* C5: on a page for which neither strategy returns text the consensus output
\* has a record with empty text and no paragraphs, tagged confidence=low and
\* validation=no_source.
C5_NoSourceIsLow ==
    cpc = "done" =>
        \A i \in PagesGiven :
            (~HasText(texts_pdfplumber, i) /\ ~HasText(texts_alternative, i)) =>
                /\ i <= Len(consensus_texts)
                /\ consensus_texts[i].metin = <<>>
                /\ consensus_texts[i].paragraflar = <<>>
                /\ consensus_texts[i].confidence = "low"
                /\ consensus_texts[i].validation = "no_source"

\* ------------------------------------------------------------------------
\* C9: the confidence score lies in [0, 1] for every combination of
\* similarities in [-1, 1], answer length, result count and distinct types.
C9_ConfidenceInUnitInterval ==
    fpc = "done" =>
        /\ confidence.den > 0
        /\ 0 <= confidence.num
        /\ confidence.num <= confidence.den

\* ------------------------------------------------------------------------
\* C11: when retrieval returns no result, query() answers the fixed 'no
\* information found' text with confidence 0 and never calls the completion
\* service: every completion call is preceded by a non-empty search result.
C11_EmptySearchShortCircuits ==
    /\ completion_calls > 0 => search_results # <<>>
    /\ (qpc = "returned" /\ search_results = <<>>) =>
           /\ response.answer = NoInformationAnswer
           /\ response.confidence.num = 0
           /\ completion_calls = 0

C11_Witness ==
    /\ qpc = "returned"
    /\ rag_chunks # <<>>
    /\ search_results = <<>>
    /\ response.answer = NoInformationAnswer

\* ------------------------------------------------------------------------
\* C12: the context string query() embeds in the prompt never has more than
\* max_context_length characters (the ellipsis of a cut context included).
C12_ContextWithinLimit ==
    qpc \in {"prompted", "returned"} => Len(context) <= max_context_length

\* ------------------------------------------------------------------------
\* C13: round trip of chunking: the chunks of _chunk_text, taken in order with
\* the overlap removed from the front of every chunk after the first,
\* reconstruct the text exactly.
C13_ChunksReassemble ==
    kpc = "done" =>
        (IF ck_chunks = <<>> THEN <<>>
         ELSE ck_chunks[1] \o FlattenSeq([i \in 1 .. Len(ck_chunks) - 1 |->
                  Slice(ck_chunks[i + 1], ck_overlap, Len(ck_chunks[i + 1]))]))
        = ck_text

\* ------------------------------------------------------------------------
\* C14: when the raw split point of the first chunk falls before the end of
\* the text, the chunk is cut after the sentence terminator ('.', '!' or '?')
\* nearest before the raw boundary among those in the second half of the
\* window, and at the raw boundary only when that half holds no terminator.
C14_CutAtNearestTerminator ==
    (kpc = "done" /\ Len(ck_text) > ck_size) =>
        LET terminators == {p \in (ck_size \div 2) + 1 .. ck_size - 1 :
                                ck_text[p + 1] \in {".", "!", "?"}}
            cut == IF terminators = {} THEN ck_size
                   ELSE 1 + CHOOSE p \in terminators : \A q \in terminators : q <= p
            first == Strip(Slice(ck_text, 0, cut))
        IN  first # <<>> => (ck_chunks # <<>> /\ ck_chunks[1] = first)

\* ------------------------------------------------------------------------
\* C15 as stated: the bar score is min(0.8, count / 10) of the number of
\* qualifying rectangles: 0.3 for 3 rectangles, accepted as a bar chart when no
\* other type scores higher, and 0.2 for 2 rectangles, rejected.
C15_BarScoreIsCountOverTen ==
    (apc = "done" /\ image.loaded) =>
        /\ chart_scores.bar_chart = Min(BarCap, (image.rectangles * ScoreScale) \div BarDivisor)
        /\ image.rectangles = 3 =>
               ((\A t \in DOMAIN chart_scores : chart_scores[t] <= chart_scores.bar_chart)
                    => chart_type = "bar_chart")
        /\ image.rectangles = 2 => chart_type # "bar_chart"

\* C15 as amended: the bar score is min(0.8, count / 10) from 3 qualifying
\* rectangles on and 0.0 below 3: 3 rectangles score 0.3 and are accepted as a
\* bar chart when no other type scores higher, 2 rectangles score 0.0 and the
\* bar type is rejected.
C15_BarScoreFromThreeRectangles ==
    (apc = "done" /\ image.loaded) =>
        /\ chart_scores.bar_chart =
               (IF image.rectangles >= 3
                THEN Min(BarCap, (image.rectangles * ScoreScale) \div BarDivisor) ELSE 0)
        /\ image.rectangles = 3 =>
               /\ chart_scores.bar_chart = 30
               /\ (\A t \in DOMAIN chart_scores : chart_scores[t] <= chart_scores.bar_chart)
                      => chart_type = "bar_chart"
        /\ image.rectangles = 2 =>
               /\ chart_scores.bar_chart = 0
               /\ chart_type # "bar_chart"

C15_Witness ==
    /\ apc = "done"
    /\ image.rectangles = 3
    /\ chart_scores.bar_chart = 30
    /\ chart_scores.line_chart = 30
    /\ chart_type = "bar_chart"

\* ------------------------------------------------------------------------
\* C16: _detect_chart_type returns a type if and only if the highest of the
\* four detector scores is at least 0.30, the returned type has that highest
\* score, and None is returned exactly when every score is below 0.30.
C16_TypeIffMaxScoreAtThreshold ==
    (apc = "done" /\ image.loaded) =>
        LET highest == CHOOSE v \in {chart_scores[t] : t \in DOMAIN chart_scores} :
                           \A t \in DOMAIN chart_scores : chart_scores[t] <= v
        IN  /\ chart_type # "None" <=> highest >= MinTypeConfidence
            /\ chart_type # "None" => chart_scores[chart_type] = highest
            /\ chart_type = "None" <=>
                   \A t \in DOMAIN chart_scores : chart_scores[t] < MinTypeConfidence

C16_Witness ==
    /\ apc = "done"
    /\ chart_type = "line_chart"
    /\ chart_scores.line_chart = MinTypeConfidence
    /\ chart_scores.scatter_plot = MinTypeConfidence

\* ------------------------------------------------------------------------
\* C17: every ChartData analyze_image returns has confidence exactly 0.8,
\* however the OCR and the extraction of the data points went.
C17_ReturnedConfidenceIsFixed ==
    (apc = "done" /\ chart_data # NoChart) => chart_data.confidence = 80

C17_Witness ==
    /\ apc = "done"
    /\ chart_data # NoChart
    /\ image.ocr_fails
    /\ chart_data.data_points = <<>>
    /\ chart_data.confidence = 80

\* ------------------------------------------------------------------------
\* C18: for line and scatter charts the n numeric tokens of the OCR lines, in
\* order of discovery, give exactly floor(n / 2) points, the j-th being
\* {x: token 2j, y: token 2j+1} (0-based); an odd last token is in no point
\* and no token is in two points.
C18_TokensPairedConsecutively ==
    (apc = "done" /\ chart_data # NoChart /\ chart_type \in {"line_chart", "scatter_plot"}) =>
        LET tokens == FlattenSeq([i \in 1 .. Len(chart_data.extracted_text) |->
                          FindNumbers(chart_data.extracted_text[i])])
            points == chart_data.data_points
        IN  /\ Len(points) = Len(tokens) \div 2
            /\ \A j \in 0 .. Len(points) - 1 :
                   /\ points[j + 1].x = ParseFloat(tokens[2 * j + 1])
                   /\ points[j + 1].y = ParseFloat(tokens[2 * j + 2])

C18_Witness ==
    /\ apc = "done"
    /\ chart_type = "scatter_plot"
    /\ Len(NumbersOf(chart_data.extracted_text)) = 5
    /\ Len(chart_data.data_points) = 2

\* ------------------------------------------------------------------------
\* C19 as stated: the title of a page is its first paragraph with
\* 10 < length < 100, an uppercase first letter, no final '.', no leading
\* bullet and not purely numeric; such a paragraph is never skipped for another
\* reason, and without one the title is the default title of page n.
C19_FirstParagraphOfFiveConditions ==
    tpc = "done" =>
        \A r \in 1 .. Len(text_data) :
            LET ps   == text_data[r].paragraflar
                good == {j \in 1 .. Len(ps) :
                            /\ Len(ps[j]) > 10 /\ Len(ps[j]) < 100
                            /\ \E u \in 1 .. Len(UpperLetters) : UpperLetters[u] = ps[j][1]
                            /\ ps[j][Len(ps[j])] # "."
                            /\ ps[j][1] # Bullet
                            /\ \E c \in 1 .. Len(ps[j]) : ~IsDigitChar(ps[j][c])}
            IN  titles[text_data[r].sayfa] =
                    (IF good = {} THEN <<"S", "a", "y", "f", "a", " ">> \o Str(text_data[r].sayfa)
                     ELSE ps[CHOOSE j \in good : \A k \in good : j <= k])

\* C19 as amended: the title of a page is its first paragraph that satisfies
\* the five conditions and whose lower-cased text contains neither 'tablo' nor
\* 'grafik'; without such a paragraph the title is the default title of page n.
C19_FirstParagraphNotACaption ==
    tpc = "done" =>
        \A r \in 1 .. Len(text_data) :
            LET ps   == text_data[r].paragraflar
                good == {j \in 1 .. Len(ps) :
                            /\ Len(ps[j]) > 10 /\ Len(ps[j]) < 100
                            /\ \E u \in 1 .. Len(UpperLetters) : UpperLetters[u] = ps[j][1]
                            /\ ps[j][Len(ps[j])] # "."
                            /\ ps[j][1] # Bullet
                            /\ \E c \in 1 .. Len(ps[j]) : ~IsDigitChar(ps[j][c])
                            /\ \A w \in {Tablo, Grafik} :
                                   \A o \in 0 .. Len(ps[j]) - Len(w) :
                                       Lower(SubSeq(ps[j], o + 1, o + Len(w))) # w}
            IN  titles[text_data[r].sayfa] =
                    (IF good = {} THEN <<"S", "a", "y", "f", "a", " ">> \o Str(text_data[r].sayfa)
                     ELSE ps[CHOOSE j \in good : \A k \in good : j <= k])

C19_Witness ==
    /\ tpc = "done"
    /\ Len(text_data) = 1
    /\ Len(text_data[1].paragraflar) = 2
    /\ Contains(Lower(text_data[1].paragraflar[1]), Tablo)
    /\ IsUpperChar(text_data[1].paragraflar[1][1])
    /\ titles[text_data[1].sayfa] = text_data[1].paragraflar[2]

\* ------------------------------------------------------------------------
\* C20: image rendering degrades from the high-resolution renderer to the
\* lower-resolution one to a blank placeholder: the fallback renderer is
\* attempted only after the primary one failed, and every page of the final
\* output has an image entry, also when both renderers failed.
C20_EveryPageHasAnImage ==
    \A d \in DOMAIN ipc :
        /\ (\E i \in 1 .. Len(render_log[d]) : render_log[d][i] = "pdfplumber") =>
               /\ render_log[d] = <<"pdf2image", "pdfplumber">>
               /\ extraction_results[d]["images_pdf2image"] = <<>>
        /\ ipc[d] = "done" =>
               \A p \in 1 .. Len(final_pages[d]) : final_pages[d][p].grafikler # <<>>

\* ---------------------------------------------------------------------------
\* C21: analyze_batch is failure-isolated.  When it has returned, its mapping has
\* an entry for every submitted path, the entry of every path is what
\* analyze_image gives for that path alone (None for an image that cannot be
\* read, on which imread raises, or in which no chart is detected), and as long
\* as no submitted analysis hangs the batch can always take a further step until
\* it has returned.
SubmittedPaths(d) == {image_paths[d][i] : i \in 1 .. Len(image_paths[d])}

FailingPaths == {<<"blank.png">>, <<"missing.png">>, <<"bad.png">>}

\* some step of the batch or of one of its workers can be taken
BatchCanStep(d) ==
    \/ bpc[d] = "input"
    \/ \E i \in 1 .. Len(futures[d]) :
           \/ /\ futures[d][i].state = "queued"
              /\ Cardinality({j \in 1 .. Len(futures[d]) : Busy(d, j)}) < MaxWorkers
           \/ futures[d][i].state = "running" /\ ~FileOf(futures[d][i].path).hangs
           \/ futures[d][i].state = "counting"
    \/ /\ bpc[d] = "collecting" /\ collected[d] < Len(futures[d])
       /\ futures[d][collected[d] + 1].state = "done"
    \/ /\ bpc[d] = "collecting" /\ collected[d] = Len(futures[d])
       /\ \A i \in 1 .. Len(futures[d]) : futures[d][i].state = "done"

C21_BatchFailureIsolated ==
    \A d \in DOMAIN bpc :
        /\ bpc[d] = "returned" =>
               /\ DOMAIN batch_results[d] = SubmittedPaths(d)
               /\ \A p \in SubmittedPaths(d) :
                      /\ batch_results[d][p] = AnalyzeImageOutcome(FileOf(p).image).result
                      /\ p \in FailingPaths => batch_results[d][p] = NoChart
        /\ (bpc[d] \in {"input", "collecting"} /\ <<"slow.png">> \notin SubmittedPaths(d)) =>
               BatchCanStep(d)

\* a returned batch of a chart and of an image whose analysis raised
C21_Witness ==
    /\ bpc = <<"returned">>
    /\ image_paths = << << <<"bad.png">>, <<"bar.png">> >> >>
    /\ batch_results[1][<<"bad.png">>] = NoChart
    /\ batch_results[1][<<"bar.png">>].chart_type = "bar_chart"
    /\ performance_stats.chart_detection.errors = 1

\* ---------------------------------------------------------------------------
\* C29: after analyze_batch has returned, chart_detection.success is the number
\* of submitted images for which analyze_image returned a ChartData and
\* chart_detection.errors the number for which it caught an exception.
CountOf(S) == Cardinality(S)

C29_CountersExactAfterBatch ==
    \A d \in DOMAIN bpc :
        bpc[d] = "returned" =>
            /\ performance_stats.chart_detection.success =
                   CountOf({i \in 1 .. Len(futures[d]) : futures[d][i].result # NoChart})
            /\ performance_stats.chart_detection.errors =
                   CountOf({i \in 1 .. Len(futures[d]) :
                               FileOf(futures[d][i].path).image.imread_raises})

\* ---------------------------------------------------------------------------
\* C22: a task that exceeds its timeout is treated as a failed task: its result
\* is recorded as empty, the results of its siblings are kept, and
\* parallel_extraction returns to its caller even if that task never finishes.
C22_TimedOutTaskIsAFailedTask ==
    /\ [](\A d \in DOMAIN ipc : \A name \in DOMAIN extraction_results[d] :
              (name \in DOMAIN extraction_futures[d]
                   /\ extraction_futures[d][name] = "running") =>
                  extraction_results[d][name] = <<>>)
    /\ <>(\A d \in DOMAIN ipc : ipc[d] \in {"extracted", "done"})

\* ---------------------------------------------------------------------------
\* C23: whatever the completion service does, the step that ends query() returns
\* an answer-shaped record (an 'answer' string and a 'confidence' number);
\* on the failure path the confidence is 0 and self.query_stats is as it was
\* before the call.
Answers == {NoInformationAnswer, ErrorAnswer, "formatted_answer"}

C23_QueryFailureIsAnAnswer ==
    [][(qpc # "returned" /\ qpc' = "returned") =>
           /\ response'.answer \in Answers
           /\ response'.confidence.den > 0
           /\ response'.answer = ErrorAnswer =>
                  /\ response'.confidence.num = 0
                  /\ query_stats' = query_stats]_vars

\* a second query that failed after a first one that was answered
C23_Witness ==
    /\ qpc = "returned"
    /\ queries_made = 2
    /\ response.answer = ErrorAnswer
    /\ response.confidence.num = 0
    /\ query_stats.total_queries = 1
    /\ completion_calls = 1

\* ---------------------------------------------------------------------------
\* C24: a search on a store whose index holds no vectors returns the empty list,
\* raises nothing and makes no call of the embedding model, whatever the query,
\* k and the type filter are.
C24_EmptyIndexSearchIsEmpty ==
    (out.op = "search" /\ Len(index) = 0) =>
        /\ out.results = <<>>
        /\ out.raised = "none"
        /\ out.encode_calls = 0

\* a filtered search for MaxK results on the empty store
C24_Witness ==
    /\ out.op = "search"
    /\ Len(index) = 0
    /\ out.k = MaxK
    /\ out.filter_type = "table"
    /\ out.results = <<>>

\* ---------------------------------------------------------------------------
\* C26: a search returns at most min(k, number of indexed vectors) results and
\* every result is a neighbour the index retrieved: no result is made for a
\* slot the index padded with position -1 (such a slot carries the score of a
\* missing neighbour).  (Stated for the searches that run while no insertion is
\* in progress.)
C26_NoResultForPaddedSlot ==
    (out.op = "search" /\ pc = "idle") =>
        /\ Len(out.results) <= Min(out.k, Len(index))
        /\ \A i \in 1 .. Len(out.results) : out.results[i].score # FaissMissingScore

\* ---------------------------------------------------------------------------
\* C27: a load_vector_store that returns False leaves the store as it was before
\* the call: the index, the chunk list and the metadata map are unchanged, and
\* the index still holds as many vectors as there are chunks.
C27_FailedLoadChangesNothing ==
    [][(out'.op = "load" /\ out' # out /\ ~out'.ret) =>
           /\ index' = index
           /\ chunks' = chunks
           /\ chunk_metadata' = chunk_metadata
           /\ Len(index') = Len(chunks')]_vars

\* ---------------------------------------------------------------------------
\* C28: for every text and every chunk_size >= 1, 0 <= overlap < chunk_size, each
\* iteration of the loop of _chunk_text strictly increases the start offset,
\* also when the cut is moved back to a sentence terminator.
C28_StartStrictlyIncreases ==
    [][(kpc = "loop" /\ kpc' = "loop" /\ ck_iterations' # ck_iterations) =>
           ck_start' > ck_start]_vars

\* ---------------------------------------------------------------------------
\* C30: every chunk _split_text returns has at most max_size characters, for
\* every text and every max_size >= 1.
C30_ChunksWithinMaxSize ==
    spc = "done" => \A i \in 1 .. Len(sp_chunks) : Len(sp_chunks[i]) <= sp_max_size

\* ---------------------------------------------------------------------------
\* C25: once the artifact of IntegratedAnalyzer has been given to
\* add_pdf_content, the store holds one chunk of chunk_type 'table' for every
\* table in the pages of the artifact.
TableChunksOf(chunk_list) == {i \in 1 .. Len(chunk_list) : chunk_list[i].chunk_type = "table"}

C25_EveryTableIsAChunk ==
    \A d \in DOMAIN ipc :
        ipc[d] = "added" =>
            Cardinality(TableChunksOf(chunks)) = artifact[d].pdf_content.summary.total_tables

====
